---- MODULE Spec2Model ----
(***************************************************************************)
(* Model of the conductor's durable task store and of the processes that   *)
(* write it: the coordination-server tool handlers run by worker sessions  *)
(* (claim_task, complete_task) and the engine (task creation, orphan       *)
(* recovery, the execute monitor loop and the cycle loop).                 *)
(*                                                                         *)
(* Every task lives in its own file tasks/<id>.json.  The handlers take a  *)
(* proper-lockfile lock on the file; the engine's StateManager does not.   *)
(* Every writer uses fs.writeFile, which opens the file with O_TRUNC and   *)
(* then writes the data: the two are separate steps here, and a read that  *)
(* falls between them finds a file that does not parse.                    *)
(*                                                                         *)
(* The module also follows the run state of state.json (status, paused_at, *)
(* resume_after, current_cycle) through the pause and resume commands and  *)
(* a crash of the engine, the message log written by post_update and       *)
(* signalWindDown and read by read_updates, the reviewer's two-attempt     *)
(* retry (withRetryOnInvalidResponse), the usage monitor's waitForReset,   *)
(* the known-issue registry and the flow tracer's sliding window.          *)
(***************************************************************************)
EXTENDS Integers, FiniteSets, Sequences, TLC

\* ---------------------------------------------------------------- bounds
MaxTasks == 2        \* task files task-001 .. task-00N the model follows
MaxSessions == 2     \* worker sessions spawned over the whole run
MaxFindings == 1     \* critical/high findings in one flow report
MaxCycles == 2       \* --max-cycles
MaxClock == 3        \* milliseconds of Date.now() the message log is followed for
MaxPosts == 2        \* post_update calls the message log is followed for
MaxFlows == 5        \* flows the flow tracer extracts from one diff

\* ------------------------------------------------------ program constants
Concurrency == 2     \* DEFAULT_CONCURRENCY

TaskIds == 1..MaxTasks
Sessions == 1..MaxSessions
Sentinel == MaxSessions + 1   \* the session id "sentinel-security"
NoSession == 0       \* owner: null
NoTime == 0          \* started_at / completed_at: null
Now == 1             \* new Date().toISOString(): some timestamp
Summaries == {"done"}

\* ------------------------------------------------------------ task records
\* The Task fields the store's writers set.  task_type is an optional field
\* of Task that no writer sets: a stored record does not have it.
Task(status, owner, depends_on, blocks, result_summary, started_at, completed_at) ==
  [status |-> status, owner |-> owner, depends_on |-> depends_on,
   blocks |-> blocks, result_summary |-> result_summary,
   started_at |-> started_at, completed_at |-> completed_at,
   task_type |-> "undefined"]

NullTask == Task("pending", NoSession, {}, {}, "null", NoTime, NoTime)

\* A task file: absent, present with content JSON.parse rejects (empty after
\* O_TRUNC, or the mixed bytes of two overlapping writers), or a task record.
ENOENT == [exists |-> FALSE, parseable |-> FALSE, json |-> NullTask]
Unparseable == [exists |-> TRUE, parseable |-> FALSE, json |-> NullTask]
JsonFile(task) == [exists |-> TRUE, parseable |-> TRUE, json |-> task]

\* ----------------------------------------------------------------- state
VARIABLES
  taskFiles,      \* tasks/<id>.json, by task id
  lockHeld,       \* <id>.json.lock: the session holding it, or NoSession
  activeWorkers,  \* WorkerManager.activeWorkers (keys): worker sessions and
                  \* the sentinel
  spawned,        \* number of worker sessions spawned so far (fresh ids)
  call,           \* per session: the tool call in flight and its locals
  engine,         \* the engine's position and locals
  claimed,        \* history: per task, the sessions whose claim stored
                  \* themselves as owner since the record was last stored
                  \* as pending
  returned,       \* history: the tool result the last step gave back to a
                  \* session, if that step was a handler's return
  messaging,      \* the messages directory, its writers and one reader
  codex,          \* one logical review of the CodexReviewer
  usage,          \* the UsageMonitor during one waitForReset call
  knownIssues,    \* known-issues.json, by dedup key
  tracer          \* one traceFlowsConcurrently call of the FlowTracer

vars == <<taskFiles, lockHeld, activeWorkers, spawned, call, engine, claimed, returned,
          messaging, codex, usage, knownIssues, tracer>>

\* ------------------------------------------------------------- file system
\* fs.writeFile, first half: open(path, "w") truncates the file.
OpenTruncate(files, id) == [files EXCEPT ![id] = Unparseable]

\* fs.writeFile, second half: the data is written from offset 0.  If another
\* writer stored its data since this writer truncated, the two contents
\* overlap: the result is this writer's record, or bytes that do not parse.
WriteDataOutcomes(files, id, task) ==
  IF files[id].parseable THEN {JsonFile(task), Unparseable} ELSE {JsonFile(task)}

\* readJsonFile of the tool handlers: null for a missing file, throws on
\* content that does not parse.
readJsonFile(file) ==
  [isNull |-> ~file.exists,
   throws |-> file.exists /\ ~file.parseable,
   task |-> IF file.parseable THEN file.json ELSE NullTask]

\* StateManager.getTask: null for a missing file and for any read or parse error.
getTask(file) ==
  [isNull |-> ~file.parseable,
   task |-> IF file.parseable THEN file.json ELSE NullTask]

\* History: a stored pending record starts a new claim round for the task.
ClaimedAfterStore(id, file) ==
  IF file.parseable /\ file.json.status = "pending"
    THEN [claimed EXCEPT ![id] = {}]
    ELSE claimed

\* ------------------------------------------------------------ tool results
NoResult == [success |-> FALSE, error |-> "none", status |-> "none", dep |-> 0]
Success == [success |-> TRUE, error |-> "", status |-> "none", dep |-> 0]
Failure(error) == [success |-> FALSE, error |-> error, status |-> "none", dep |-> 0]
NotPending(status) == [success |-> FALSE, error |-> "not_pending", status |-> status, dep |-> 0]
Blocked(depId) == [success |-> FALSE, error |-> "blocked_by_dependency", status |-> "none", dep |-> depId]

IdleCall ==
  [pc |-> "idle", task_id |-> 0, task |-> NullTask, summary |-> "null",
   \* history: the dependencies the handler read and found not completed
   readDeps |-> {}]

\* A handler's return: the tool, its caller and argument, the result, what the
\* handler read under the lock (status and owner of the task, the dependencies
\* it found not completed), and whether it wrote the task file.
Return(tool, s, id, result, task, readDeps, wrote) ==
  [tool |-> tool, session |-> s, task_id |-> id, result |-> result,
   readStatus |-> task.status, readOwner |-> task.owner, readDeps |-> readDeps,
   wrote |-> wrote]

NoTask == [status |-> "none", owner |-> NoSession]

NoReturn == Return("none", NoSession, 0, NoResult, NoTask, {}, FALSE)

\* The engine's run() has returned or thrown, or the process was killed.
RunEnded == engine.pc \in {"completed", "failed", "paused", "escalated", "crashed"}

\* A session makes tool calls while its worker runs, in this process or left
\* running in an earlier process of the run; the model follows the store
\* until run() ends and starts no further call after that.
Running(s) == (s \in activeWorkers \/ s \in engine.detached) /\ ~RunEnded

\* Variant: a lock that excludes nobody.
LockFreeAlways(id) == TRUE

\* proper-lockfile lock(): mkdir of the lock directory succeeds for one caller.
LockFree(id) == lockHeld[id] = NoSession

\* The finally block: release() if the lock was taken.
Released(s) == [id \in TaskIds |-> IF lockHeld[id] = s THEN NoSession ELSE lockHeld[id]]

\* The handler's return: the finally block releases the lock, then the result
\* goes back to the session.
ReturnFrom(tool, s, id, result, task, readDeps) ==
  /\ call' = [call EXCEPT ![s] = IdleCall]
  /\ lockHeld' = Released(s)
  /\ returned' = Return(tool, s, id, result, task, readDeps, FALSE)

\* ------------------------------------------------- claim_task (tools.ts)
\* Variant: no status check.
IsPendingAlways(task) == TRUE

\* "Verify task is pending"
IsPending(task) == task.status = "pending"

\* Variant: no dependency check.
DepUnresolvedNever(dep) == FALSE

\* "Verify all dependencies are completed": the test on one dependency read.
DepUnresolved(dep) == dep.isNull \/ dep.task.status # "completed"

\* "Claim the task"
ClaimedTask(task, sessionId, now) ==
  [task EXCEPT !.status = "in_progress", !.owner = sessionId, !.started_at = now]

\* With the lock: read the task, check its status, read and check each
\* dependency (in the order of depends_on, which the model leaves open); then
\* go on to the write.  A file that does not parse makes readJsonFile throw,
\* and the catch returns the failure.
ClaimUnderLock(s, id) ==
  LET r == readJsonFile(taskFiles[id])
      deps == r.task.depends_on
      throwing == {d \in deps : readJsonFile(taskFiles[d]).throws}
      unresolved == {d \in deps \ throwing : DepUnresolved(readJsonFile(taskFiles[d]))}
      notCompleted == {d \in deps : \/ ~taskFiles[d].exists
                                    \/ /\ taskFiles[d].parseable
                                       /\ taskFiles[d].json.status # "completed"} IN
    IF r.throws THEN ReturnFrom("claim_task", s, id, Failure("invalid_json"), NoTask, {})
    ELSE IF r.isNull THEN ReturnFrom("claim_task", s, id, Failure("not_found"), NoTask, {})
    ELSE IF ~IsPending(r.task)
      THEN ReturnFrom("claim_task", s, id, NotPending(r.task.status), r.task, {})
    ELSE IF throwing # {} \/ unresolved # {}
      THEN \/ /\ throwing # {}
              /\ ReturnFrom("claim_task", s, id, Failure("invalid_json"), r.task, notCompleted)
           \/ \E d \in unresolved :
                ReturnFrom("claim_task", s, id, Blocked(d), r.task, notCompleted)
    ELSE /\ call' = [call EXCEPT ![s] = [IdleCall EXCEPT !.pc = "claim_open", !.task_id = id,
                                                         !.task = r.task,
                                                         !.readDeps = notCompleted]]
         /\ lockHeld' = [lockHeld EXCEPT ![id] = s]
         /\ returned' = NoReturn

\* fs.access(taskPath), then lock(taskPath, ...), first attempt: the lock is
\* taken, or the caller waits for a retry.
ClaimTask(s, id) ==
  /\ Running(s)
  /\ call[s].pc = "idle"
  /\ IF ~taskFiles[id].exists
       THEN ReturnFrom("claim_task", s, id, Failure("file_not_found"), NoTask, {})
       ELSE IF LockFree(id)
         THEN ClaimUnderLock(s, id)
         ELSE /\ call' = [call EXCEPT ![s] = [IdleCall EXCEPT !.pc = "claim_lock", !.task_id = id]]
              /\ returned' = NoReturn
              /\ UNCHANGED lockHeld
  /\ UNCHANGED <<taskFiles, activeWorkers, spawned, engine, claimed, messaging, codex, usage, knownIssues, tracer>>

\* lock(): the retries ({ retries: 3, minTimeout: 100 }).  One of them finds
\* the lock free; or all of them find it held and lock() rejects with ELOCKED,
\* which the handler's catch turns into a failure result.
ClaimLock(s) ==
  /\ call[s].pc = "claim_lock"
  /\ IF LockFree(call[s].task_id)
       THEN ClaimUnderLock(s, call[s].task_id)
       ELSE ReturnFrom("claim_task", s, call[s].task_id, Failure("lock_held"), NoTask, {})
  /\ UNCHANGED <<taskFiles, activeWorkers, spawned, engine, claimed, messaging, codex, usage, knownIssues, tracer>>

\* fs.writeFile(taskPath, ...): the open.
ClaimOpen(s) ==
  /\ call[s].pc = "claim_open"
  /\ taskFiles' = OpenTruncate(taskFiles, call[s].task_id)
  /\ call' = [call EXCEPT ![s].pc = "claim_write"]
  /\ returned' = NoReturn
  /\ UNCHANGED <<lockHeld, activeWorkers, spawned, engine, claimed, messaging, codex, usage, knownIssues, tracer>>

\* fs.writeFile(taskPath, ...): the data.  Then, still under the lock, the
\* dependency context and the sibling scan read task files with readJsonFile:
\* one that does not parse throws, and the catch returns a failure although
\* the claim is stored.
ClaimWrite(s) ==
  /\ call[s].pc = "claim_write"
  /\ LET id == call[s].task_id
         task == ClaimedTask(call[s].task, s, Now) IN
       \E file \in WriteDataOutcomes(taskFiles, id, task) :
         /\ taskFiles' = [taskFiles EXCEPT ![id] = file]
         /\ claimed' = IF file.parseable THEN [claimed EXCEPT ![id] = @ \cup {s}] ELSE claimed
         /\ returned' = Return("claim_task", s, id,
                                IF \E t \in TaskIds : readJsonFile(taskFiles'[t]).throws
                                  THEN Failure("invalid_json") ELSE Success,
                                call[s].task, call[s].readDeps, TRUE)
  /\ call' = [call EXCEPT ![s] = IdleCall]
  /\ lockHeld' = Released(s)
  /\ UNCHANGED <<activeWorkers, spawned, engine, messaging, codex, usage, knownIssues, tracer>>

\* ---------------------------------------------- complete_task (tools.ts)
\* Variant: no ownership check.
IsOwnerAlways(task, sessionId) == TRUE

\* "Verify this session owns the task"
IsOwner(task, sessionId) == task.owner = sessionId

\* "Mark as completed"
CompletedTask(task, now, result_summary) ==
  [task EXCEPT !.status = "completed", !.completed_at = now,
               !.result_summary = result_summary]

\* With the lock: read the task, check its owner; then go on to the write.
CompleteUnderLock(s, id, summary) ==
  LET r == readJsonFile(taskFiles[id]) IN
    IF r.throws THEN ReturnFrom("complete_task", s, id, Failure("invalid_json"), NoTask, {})
    ELSE IF r.isNull THEN ReturnFrom("complete_task", s, id, Failure("not_found"), NoTask, {})
    ELSE IF ~IsOwner(r.task, s)
      THEN ReturnFrom("complete_task", s, id, Failure("not_owner"), r.task, {})
    ELSE /\ call' = [call EXCEPT ![s] = [IdleCall EXCEPT !.pc = "complete_open", !.task_id = id,
                                                         !.task = r.task, !.summary = summary]]
         /\ lockHeld' = [lockHeld EXCEPT ![id] = s]
         /\ returned' = NoReturn

CompleteTask(s, id, summary) ==
  /\ Running(s)
  /\ call[s].pc = "idle"
  /\ IF ~taskFiles[id].exists
       THEN ReturnFrom("complete_task", s, id, Failure("file_not_found"), NoTask, {})
       ELSE IF LockFree(id)
         THEN CompleteUnderLock(s, id, summary)
         ELSE /\ call' = [call EXCEPT ![s] = [IdleCall EXCEPT !.pc = "complete_lock",
                                                              !.task_id = id, !.summary = summary]]
              /\ returned' = NoReturn
              /\ UNCHANGED lockHeld
  /\ UNCHANGED <<taskFiles, activeWorkers, spawned, engine, claimed, messaging, codex, usage, knownIssues, tracer>>

CompleteLock(s) ==
  /\ call[s].pc = "complete_lock"
  /\ IF LockFree(call[s].task_id)
       THEN CompleteUnderLock(s, call[s].task_id, call[s].summary)
       ELSE ReturnFrom("complete_task", s, call[s].task_id, Failure("lock_held"), NoTask, {})
  /\ UNCHANGED <<taskFiles, activeWorkers, spawned, engine, claimed, messaging, codex, usage, knownIssues, tracer>>

CompleteOpen(s) ==
  /\ call[s].pc = "complete_open"
  /\ taskFiles' = OpenTruncate(taskFiles, call[s].task_id)
  /\ call' = [call EXCEPT ![s].pc = "complete_write"]
  /\ returned' = NoReturn
  /\ UNCHANGED <<lockHeld, activeWorkers, spawned, engine, claimed, messaging, codex, usage, knownIssues, tracer>>

\* The data write, then the task_completed message is appended to the
\* session's log and the handler returns success.
CompleteWrite(s) ==
  /\ call[s].pc = "complete_write"
  /\ LET id == call[s].task_id
         task == CompletedTask(call[s].task, Now, call[s].summary) IN
       \E file \in WriteDataOutcomes(taskFiles, id, task) :
         /\ taskFiles' = [taskFiles EXCEPT ![id] = file]
         /\ returned' = Return("complete_task", s, id, Success, call[s].task, {}, TRUE)
  /\ call' = [call EXCEPT ![s] = IdleCall]
  /\ lockHeld' = Released(s)
  /\ UNCHANGED <<activeWorkers, spawned, engine, claimed, messaging, codex, usage, knownIssues, tracer>>

\* ------------------------------------------------ worker sessions
\* runWorker's finally: the session's stream has ended, between tool calls.
WorkerExit(s) ==
  /\ s \in activeWorkers
  /\ call[s].pc = "idle"
  /\ activeWorkers' = activeWorkers \ {s}
  /\ returned' = NoReturn
  /\ UNCHANGED <<taskFiles, lockHeld, spawned, call, engine, claimed, messaging, codex, usage, knownIssues, tracer>>

\* The session of a worker that an earlier process left running ends.
DetachedExit(s) ==
  /\ s \in engine.detached
  /\ call[s].pc = "idle"
  /\ engine' = [engine EXCEPT !.detached = @ \ {s}]
  /\ returned' = NoReturn
  /\ UNCHANGED <<taskFiles, lockHeld, activeWorkers, spawned, call, claimed, messaging, codex,
                 usage, knownIssues, tracer>>

\* ------------------------------------------------ engine: locals
NoSnapshot == [id \in TaskIds |-> ENOENT]

IdleEngine ==
  [pc |-> "plan",
   current_cycle |-> 0,
   max_cycles |-> MaxCycles,  \* state.max_cycles, from --max-cycles
   concurrency |-> Concurrency,  \* options.concurrency, from --concurrency
   status |-> "initializing", \* state.status
   paused_at |-> "null",      \* state.paused_at
   pauseFile |-> FALSE,       \* the pause signal file exists
   detached |-> {},           \* worker sessions that still run in an earlier
                              \* process of this run (not in activeWorkers)
   tasks |-> <<>>,            \* planOutput.tasks: per task block, the ids its
                              \* depends_on_subjects resolve to
   i |-> 0,                   \* loop index of plan()
   id |-> 0,                  \* createTask: id
   dependencyIds |-> {},      \* createTask: dependencies not yet visited
   depId |-> 0,               \* createTask: the dependency being updated
   depTask |-> NullTask,      \* createTask: its record, as read, with blocks pushed
   caller |-> "none",         \* who called createTask / resetOrphanedTasks
   activeSessionIds |-> {},   \* resetOrphanedTasks: parameter
   inProgressTasks |-> NoSnapshot,  \* resetOrphanedTasks: the records read
   orphans |-> {},            \* resetOrphanedTasks: loop iterations left
   cur |-> 0,                 \* resetOrphanedTasks: task being written
   written |-> {},            \* resetOrphanedTasks: tasks written (history)
   resetCount |-> 0,          \* resetOrphanedTasks: return value
   pendingSeen |-> 0,         \* execute: pending tasks in allTasks
   graceExpired |-> {},       \* history: the workers still running when the
                              \* last waitForAllWorkers timed out
   userPauseRequested |-> FALSE,  \* this.userPauseRequested
   usageCritical |-> FALSE,   \* this.usageCritical || this.usage.isWindDownNeeded()
   pauseSignal |-> FALSE,     \* the pause signal file was there, and was left there,
                              \* in the poll that ended this cycle's monitor loop
   verdict |-> "none",        \* reviewResult.verdict of the last review dialogue
   resume_after |-> "null",   \* state.resume_after
   escalationResult |-> "none",  \* what escalateToUser returned last
   findings |-> 0,            \* critical and high findings left to turn into tasks
   nextTaskNum |-> 0,         \* createFixTasksFromFindings
   result |-> "none",         \* checkpoint()
   error |-> "none"]          \* what run()'s catch caught

\* getAllTasks: readdir, then readFile and JSON.parse of every entry; throws on
\* an entry that does not parse.
getAllTasksThrows == \E id \in TaskIds : taskFiles[id].exists /\ ~taskFiles[id].parseable

TasksWithStatus(files, status) ==
  {id \in TaskIds : files[id].parseable /\ files[id].json.status = status}

\* StateManager.setStatus
setStatus(e, status) == [e EXCEPT !.status = status]

\* Variant: pause() that sets the status only.
pauseStatusOnly(e, resumeAfter) == [e EXCEPT !.status = "paused"]

\* StateManager.pause
pause(e, resumeAfter) ==
  [e EXCEPT !.status = "paused", !.paused_at = "now", !.resume_after = resumeAfter]

\* StateManager.resume
resume(e) ==
  [e EXCEPT !.status = "executing", !.paused_at = "null", !.resume_after = "null"]

\* The engine's process has ended at pc: what is left is the run state file,
\* the pause signal file, and (history) the process's last userPauseRequested.
Ended(e, pc) ==
  [IdleEngine EXCEPT !.pc = pc, !.current_cycle = e.current_cycle,
                     !.max_cycles = e.max_cycles, !.concurrency = e.concurrency,
                     !.status = e.status,
                     !.paused_at = e.paused_at, !.resume_after = e.resume_after,
                     !.pauseFile = e.pauseFile, !.detached = e.detached,
                     !.userPauseRequested = e.userPauseRequested]

\* run()'s catch: setStatus("failed") and rethrow; the CLI exits.
EngineFails(error) ==
  engine' = [Ended(setStatus(engine, "failed"), "failed") EXCEPT !.error = error]

\* Fresh session ids: worker-<now>-<i>; the model has MaxSessions of them.
FreshSessions(n) == {s \in Sessions : spawned < s /\ s <= spawned + n}

Min(a, b) == IF a < b THEN a ELSE b

\* ------------------------------------------------ engine: plan()
\* The planner's task blocks, each with the positions its depends_on_subjects
\* name: validateTaskDefinition accepts any list of subjects, and plan() drops
\* the subjects that no block of the list has.  A block can name itself and
\* blocks that come later in the list.
AllPlanOutputs == UNION {[1..n -> SUBSET (1..n)] : n \in 0..MaxTasks}

\* The task lists in which a block names earlier blocks only.
PlanOutputs == {<<>>, <<{}>>, <<{}, {}>>, <<{}, {1}>>}

\* plan(), first pass: taskId = task-<i+1>, for every planner output.
PlanTaskId(i) == i

\* How the plan-review dialogue ends: with a verdict and, after a persistent
\* disagreement, with the user's answer to the escalation ("exit": the
\* non-interactive escalation ends the process).  A dialogue that ends without
\* approval, with ERROR, with the answer continue or redirect, or that is
\* skipped, goes on to the task creation as an approved one does.
PlanReviews ==
  {[verdict |-> "APPROVE", escalation |-> "none"],
   [verdict |-> "RATE_LIMITED", escalation |-> "none"],
   [verdict |-> "NEEDS_DISCUSSION", escalation |-> "stop"],
   [verdict |-> "NEEDS_DISCUSSION", escalation |-> "exit"]}

\* Variant: a rate-limited verdict is not acted on.
RateLimitedNever(verdict) == FALSE

\* "reviewResult.verdict === "RATE_LIMITED""
RateLimited(verdict) == verdict = "RATE_LIMITED"

\* handleCodexRateLimit: state.pause(now + 5h); run() then returns on
\* status === "paused".
handleCodexRateLimit(e, verdict) ==
  [Ended(pause(e, "now+5h"), "paused") EXCEPT !.verdict = verdict]

\* escalateToUser in non-interactive mode: setStatus("escalated"), the
\* escalation file, process.exit(2).
EscalationExit(e) ==
  [Ended(setStatus(e, "escalated"), "escalated") EXCEPT !.escalationResult = "exit"]

\* plan(): the planner's task blocks, the plan review, then the second pass of
\* the task creation up to its first createTask.
Plan(tasks, review) ==
  /\ engine.pc = "plan"
  /\ engine' =
       IF RateLimited(review.verdict) THEN handleCodexRateLimit(engine, review.verdict)
       ELSE IF review.escalation = "stop"
         THEN [Ended(setStatus(engine, "failed"), "failed") EXCEPT
                 !.error = "User stopped orchestration during plan review",
                 !.verdict = review.verdict,
                 !.escalationResult = "stop"]
       ELSE IF review.escalation = "exit" THEN EscalationExit(engine)
       ELSE IF Len(tasks) = 0
         THEN [engine EXCEPT !.pc = "execute", !.verdict = review.verdict]
       ELSE [engine EXCEPT !.pc = "createTask", !.caller = "plan", !.tasks = tasks, !.i = 1,
                           !.id = PlanTaskId(1),
                           !.dependencyIds = {PlanTaskId(d) : d \in tasks[1]},
                           !.verdict = review.verdict]
  /\ returned' = NoReturn
  /\ UNCHANGED <<taskFiles, lockHeld, activeWorkers, spawned, call, claimed, messaging, codex, usage, knownIssues, tracer>>

\* ------------------------------------------------ StateManager.createTask
\* The TaskDefinition createTask is given: the planner's (its task_type is one
\* of seven; "general" here), or the one createFixTasksFromFindings builds.
taskDef(caller) ==
  [task_type |-> IF caller = "createFixTasks" THEN "security" ELSE "general"]

\* The record createTask builds: of the definition it takes the subject and
\* the description.
NewTask(definition, dependencyIds) ==
  Task("pending", NoSession, dependencyIds, {}, "null", NoTime, NoTime)

\* createTask returns to its caller: plan() goes to its next task block or to
\* execute(); createFixTasksFromFindings to its next finding or to recordCycle.
CreateTaskReturn(e) ==
  IF e.caller = "plan"
    THEN IF e.i < Len(e.tasks)
      THEN [e EXCEPT !.pc = "createTask", !.i = @ + 1, !.id = PlanTaskId(e.i + 1),
                     !.dependencyIds = {PlanTaskId(d) : d \in e.tasks[e.i + 1]}]
      ELSE [e EXCEPT !.pc = "execute", !.tasks = <<>>, !.i = 0, !.id = 0, !.caller = "none"]
    ELSE IF e.findings > 0
      THEN [e EXCEPT !.pc = "createTask", !.id = e.nextTaskNum,
                     !.nextTaskNum = @ + 1, !.findings = @ - 1]
      ELSE [e EXCEPT !.pc = "recordCycle", !.id = 0, !.nextTaskNum = 0, !.caller = "none"]

\* The blocks loop goes on while dependencies are left.
CreateTaskLoop(e) ==
  IF e.dependencyIds = {} THEN CreateTaskReturn(e) ELSE [e EXCEPT !.pc = "createTask_deps"]

\* fs.writeFile(taskPath, ...): the open.
CreateTaskOpen ==
  /\ engine.pc = "createTask"
  /\ taskFiles' = OpenTruncate(taskFiles, engine.id)
  /\ engine' = [engine EXCEPT !.pc = "createTask_write"]
  /\ returned' = NoReturn
  /\ UNCHANGED <<lockHeld, activeWorkers, spawned, call, claimed, messaging, codex, usage, knownIssues, tracer>>

\* fs.writeFile(taskPath, ...): the data.
CreateTaskWrite ==
  /\ engine.pc = "createTask_write"
  /\ \E file \in WriteDataOutcomes(taskFiles, engine.id,
                                  NewTask(taskDef(engine.caller), engine.dependencyIds)) :
       /\ taskFiles' = [taskFiles EXCEPT ![engine.id] = file]
       /\ claimed' = ClaimedAfterStore(engine.id, file)
  /\ engine' = CreateTaskLoop(engine)
  /\ returned' = NoReturn
  /\ UNCHANGED <<lockHeld, activeWorkers, spawned, call, messaging, codex, usage, knownIssues, tracer>>

\* "depTask && !depTask.blocks.includes(id)"
NeedsBlocksEntry(dep, id) == ~dep.isNull /\ id \notin dep.task.blocks

\* The blocks loop: getTask(depId), push.
CreateTaskGetDep ==
  /\ engine.pc = "createTask_deps"
  /\ \E depId \in engine.dependencyIds :
       LET dep == getTask(taskFiles[depId]) IN
         engine' = IF NeedsBlocksEntry(dep, engine.id)
           THEN [engine EXCEPT !.pc = "createTask_dep_open", !.depId = depId,
                               !.depTask = [dep.task EXCEPT !.blocks = @ \cup {engine.id}],
                               !.dependencyIds = @ \ {depId}]
           ELSE CreateTaskLoop([engine EXCEPT !.dependencyIds = @ \ {depId}])
  /\ returned' = NoReturn
  /\ UNCHANGED <<taskFiles, lockHeld, activeWorkers, spawned, call, claimed, messaging, codex, usage, knownIssues, tracer>>

\* fs.writeFile(depPath, ...): the open.
CreateTaskDepOpen ==
  /\ engine.pc = "createTask_dep_open"
  /\ taskFiles' = OpenTruncate(taskFiles, engine.depId)
  /\ engine' = [engine EXCEPT !.pc = "createTask_dep_write"]
  /\ returned' = NoReturn
  /\ UNCHANGED <<lockHeld, activeWorkers, spawned, call, claimed, messaging, codex, usage, knownIssues, tracer>>

\* fs.writeFile(depPath, ...): the data.
CreateTaskDepWrite ==
  /\ engine.pc = "createTask_dep_write"
  /\ \E file \in WriteDataOutcomes(taskFiles, engine.depId, engine.depTask) :
       /\ taskFiles' = [taskFiles EXCEPT ![engine.depId] = file]
       /\ claimed' = ClaimedAfterStore(engine.depId, file)
  /\ engine' = CreateTaskLoop([engine EXCEPT !.depId = 0, !.depTask = NullTask])
  /\ returned' = NoReturn
  /\ UNCHANGED <<lockHeld, activeWorkers, spawned, call, messaging, codex, usage, knownIssues, tracer>>

\* ------------------------------------------ StateManager.resetOrphanedTasks
\* Variant: no task is an orphan.
IsOrphanNever(file, activeSessionIds) == FALSE

\* Variant: the active set is ignored.
IsOrphanAnyOwner(file, activeSessionIds) ==
  /\ file.parseable
  /\ file.json.status = "in_progress"
  /\ file.json.owner # NoSession

\* "task.owner && !activeSet.has(task.owner)", on an in_progress task read.
IsOrphan(file, activeSessionIds) ==
  /\ file.parseable
  /\ file.json.status = "in_progress"
  /\ file.json.owner # NoSession
  /\ file.json.owner \notin activeSessionIds

\* The record resetOrphanedTasks stores for an orphan.
ResetTask(task) ==
  [task EXCEPT !.status = "pending", !.owner = NoSession, !.started_at = NoTime]

\* resetOrphanedTasks(getActiveWorkers()) up to the loop:
\* getTasksByStatus("in_progress") reads every task file.
resetOrphanedTasks(caller, pendingSeen) ==
  LET orphans == {id \in TaskIds : IsOrphan(taskFiles[id], activeWorkers)} IN
    [engine EXCEPT !.pc = IF orphans = {} THEN "reset_return" ELSE "reset_loop",
                   !.caller = caller,
                   !.activeSessionIds = activeWorkers,
                   !.inProgressTasks =
                      [id \in TaskIds |-> IF id \in TasksWithStatus(taskFiles, "in_progress")
                                            THEN taskFiles[id] ELSE ENOENT],
                   !.orphans = orphans, !.cur = 0, !.written = {}, !.resetCount = 0,
                   !.pendingSeen = pendingSeen]

\* The loop runs in id order (entries.sort()).  fs.writeFile: the open.
ResetOpen ==
  /\ engine.pc = "reset_loop"
  /\ LET id == CHOOSE x \in engine.orphans : \A y \in engine.orphans : x <= y IN
       /\ taskFiles' = OpenTruncate(taskFiles, id)
       /\ engine' = [engine EXCEPT !.pc = "reset_write", !.cur = id]
  /\ returned' = NoReturn
  /\ UNCHANGED <<lockHeld, activeWorkers, spawned, call, claimed, messaging, codex, usage, knownIssues, tracer>>

\* fs.writeFile: the data; resetCount++; "return resetCount" after the last.
ResetWrite ==
  /\ engine.pc = "reset_write"
  /\ \E file \in WriteDataOutcomes(taskFiles, engine.cur,
                                  ResetTask(engine.inProgressTasks[engine.cur].json)) :
       /\ taskFiles' = [taskFiles EXCEPT ![engine.cur] = file]
       /\ claimed' = ClaimedAfterStore(engine.cur, file)
  /\ engine' = [engine EXCEPT !.pc = IF engine.orphans = {engine.cur} THEN "reset_return"
                                                                      ELSE "reset_loop",
                              !.orphans = @ \ {engine.cur}, !.cur = 0,
                              !.written = @ \cup {engine.cur}, !.resetCount = @ + 1]
  /\ returned' = NoReturn
  /\ UNCHANGED <<lockHeld, activeWorkers, spawned, call, messaging, codex, usage, knownIssues, tracer>>

\* What the caller keeps of a finished resetOrphanedTasks call.
AfterReset(e) ==
  [e EXCEPT !.caller = "none", !.inProgressTasks = NoSnapshot, !.cur = 0,
            !.written = {}, !.resetCount = 0, !.activeSessionIds = {}, !.pendingSeen = 0]

\* ------------------------------------------------ engine: execute()
\* setStatus("executing"); usageCritical = false; reset orphans of a previous run.
Execute ==
  /\ engine.pc = "execute"
  /\ IF getAllTasksThrows
       THEN EngineFails("invalid_json")
       ELSE engine' = [resetOrphanedTasks("execute", 0) EXCEPT
                         !.status = "executing", !.usageCritical = FALSE,
                         !.graceExpired = {}]
  /\ returned' = NoReturn
  /\ UNCHANGED <<taskFiles, lockHeld, activeWorkers, spawned, call, claimed, messaging, codex, usage, knownIssues, tracer>>

\* numWorkers = min(concurrency, pendingTasks.length); spawn them and the
\* sentinel, or return from execute() when there is nothing pending.
SpawnWorkers ==
  /\ engine.pc = "reset_return"
  /\ engine.caller = "execute"
  /\ IF getAllTasksThrows
       THEN /\ EngineFails("invalid_json")
            /\ UNCHANGED <<activeWorkers, spawned>>
       ELSE LET numWorkers == Min(engine.concurrency,
                                 Cardinality(TasksWithStatus(taskFiles, "pending")))
                fresh == FreshSessions(numWorkers) IN
              /\ activeWorkers' = IF numWorkers = 0 THEN activeWorkers
                                     ELSE activeWorkers \cup fresh \cup {Sentinel}
              /\ spawned' = spawned + Cardinality(fresh)
              /\ engine' = [AfterReset(engine) EXCEPT
                              !.pc = IF numWorkers = 0 THEN "review" ELSE "monitor"]
  /\ returned' = NoReturn
  /\ UNCHANGED <<taskFiles, lockHeld, call, claimed, messaging, codex, usage, knownIssues, tracer>>

\* After the sweep: with no worker active, respawn for the pending tasks or,
\* when nothing is pending, leave the loop; else sleep and poll again.
AfterSweep(e, none, pendingNow) ==
  LET fresh == IF none /\ pendingNow > 0
                 THEN FreshSessions(Min(e.concurrency, pendingNow)) ELSE {} IN
    /\ activeWorkers' = activeWorkers \cup fresh
    /\ spawned' = spawned + Cardinality(fresh)
    /\ engine' = [AfterReset(e) EXCEPT !.pc = IF none /\ pendingNow = 0 THEN "review"
                                                                       ELSE "monitor"]

\* One pass of the monitor loop: read all tasks; leave the loop when nothing
\* remains; wind down when the usage is critical or over the threshold (the
\* pause signal file is then not looked at); else wind down when
\* checkPauseSignal finds the pause signal file, which it removes; else sweep
\* for orphans with the workers active now.  A sweep that finds none returns 0 and the
\* pass ends with the pending tasks it read.
MonitorPoll(usageWindDown) ==
  /\ engine.pc = "monitor"
  /\ IF getAllTasksThrows
       THEN /\ EngineFails("invalid_json")
            /\ UNCHANGED <<activeWorkers, spawned>>
       ELSE LET pending == Cardinality(TasksWithStatus(taskFiles, "pending"))
                remaining == TasksWithStatus(taskFiles, "pending")
                               \cup TasksWithStatus(taskFiles, "in_progress")
                sweep == resetOrphanedTasks("monitor", pending) IN
              IF remaining = {}
                THEN /\ engine' = [engine EXCEPT !.pc = "review"]
                     /\ UNCHANGED <<activeWorkers, spawned>>
              ELSE IF usageWindDown
                THEN /\ engine' = [engine EXCEPT !.pc = "waitForAllWorkers",
                                                 !.usageCritical = TRUE,
                                                 !.pauseSignal = engine.pauseFile]
                     /\ UNCHANGED <<activeWorkers, spawned>>
              ELSE IF engine.pauseFile
                THEN /\ engine' = [engine EXCEPT !.pc = "waitForAllWorkers",
                                                 !.pauseFile = FALSE,
                                                 !.userPauseRequested = TRUE]
                     /\ UNCHANGED <<activeWorkers, spawned>>
              ELSE IF sweep.orphans # {}
                THEN /\ engine' = sweep
                     /\ UNCHANGED <<activeWorkers, spawned>>
              ELSE AfterSweep(engine, activeWorkers = {}, pending)
  /\ returned' = NoReturn
  /\ UNCHANGED <<taskFiles, lockHeld, call, claimed, messaging, codex, usage, knownIssues, tracer>>

\* signalWindDown, then waitForAllWorkers(grace): returns when every worker has
\* ended, or at the timeout with the remaining workers left running.
WaitForAllWorkers(timeout) ==
  /\ engine.pc = "waitForAllWorkers"
  /\ timeout \/ activeWorkers = {}
  /\ engine' = [engine EXCEPT !.pc = "review",
                              !.graceExpired = activeWorkers \cap Sessions]
  /\ returned' = NoReturn
  /\ UNCHANGED <<taskFiles, lockHeld, activeWorkers, spawned, call, claimed, messaging, codex, usage, knownIssues, tracer>>

\* The sweep reset some tasks: the tasks are read again before the respawn.
Respawn ==
  /\ engine.pc = "reset_return"
  /\ engine.caller = "monitor"
  /\ IF getAllTasksThrows
       THEN /\ EngineFails("invalid_json")
            /\ UNCHANGED <<activeWorkers, spawned>>
       ELSE AfterSweep(engine, engine.activeSessionIds = {},
                       Cardinality(TasksWithStatus(taskFiles, "pending")))
  /\ returned' = NoReturn
  /\ UNCHANGED <<taskFiles, lockHeld, call, claimed, messaging, codex, usage, knownIssues, tracer>>

\* ------------------------------------------------ known issues (known-issues.ts)
\* The dedup keys (file_path and description prefix) of the findings the
\* tracer can report: finding k of a report has key k.
FindingKeys == 1..MaxFindings

\* No entry with this key (the fields of an entry are then not looked at).
NoIssue == [exists |-> FALSE, found_in_cycle |-> 0, addressed |-> FALSE, addressed_in_cycle |-> 0]

\* No known-issues.json: loadKnownIssues gives [].
NoKnownIssues == [k \in FindingKeys |-> NoIssue]

\* addKnownIssues: the new issues whose key no entry has are appended, not
\* addressed.
addKnownIssues(existing, newIssues, found_in_cycle) ==
  [k \in FindingKeys |->
     IF k \in newIssues /\ ~existing[k].exists
       THEN [exists |-> TRUE, found_in_cycle |-> found_in_cycle,
             addressed |-> FALSE, addressed_in_cycle |-> 0]
       ELSE existing[k]]

\* markIssuesAddressed.  Nothing in the engine calls it.
markIssuesAddressed(issues, issueIds, cycle) ==
  [k \in FindingKeys |->
     IF k \in issueIds /\ issues[k].exists
       THEN [issues[k] EXCEPT !.addressed = TRUE, !.addressed_in_cycle = cycle]
       ELSE issues[k]]

\* ------------------------------------------------ engine: review, checkpoint
\* checkpoint(): the decision from the task tallies, the pause flags and the cycle.
checkpoint(remaining, failed, userPauseRequested, usageWindDown, current_cycle, max_cycles) ==
  IF remaining = 0 /\ failed = 0 THEN "complete"
  ELSE IF userPauseRequested THEN "pause"
  ELSE IF usageWindDown THEN "pause"
  ELSE IF current_cycle + 1 >= max_cycles THEN "escalate"
  ELSE IF failed > 0 \/ remaining > 0 THEN "continue"
  ELSE "complete"

\* run(), after checkpoint(): findings and a missing approval force "continue".
CycleResult(result, approved, findings) ==
  IF findings > 0 THEN "continue"
  ELSE IF ~approved /\ result = "complete" THEN "continue"
  ELSE result

\* review() and flowReview() in parallel give the code-review verdict and the
\* flow report, here with critical or high findings only; the findings go to
\* the known-issue registry; then checkpoint(); then
\* createFixTasksFromFindings with nextTaskNum = allTasks.length + 1.
CodeReviews == {"APPROVE", "NEEDS_FIXES", "RATE_LIMITED"}

Checkpoint(verdict, findings) ==
  /\ engine.pc = "review"
  /\ findings <= MaxTasks - Cardinality({id \in TaskIds : taskFiles[id].exists})
  /\ IF RateLimited(verdict)
       THEN engine' = handleCodexRateLimit(engine, verdict)
     ELSE IF getAllTasksThrows
       THEN EngineFails("invalid_json")
       ELSE LET approved == verdict = "APPROVE"
                remaining == Cardinality(TasksWithStatus(taskFiles, "pending")
                                           \cup TasksWithStatus(taskFiles, "in_progress"))
                failed == Cardinality(TasksWithStatus(taskFiles, "failed"))
                result == checkpoint(remaining, failed, engine.userPauseRequested,
                                     engine.usageCritical, engine.current_cycle,
                                     engine.max_cycles)
                nextTaskNum == Cardinality({id \in TaskIds : taskFiles[id].exists}) + 1 IN
              engine' = IF findings > 0
                THEN [engine EXCEPT !.result = CycleResult(result, approved, findings),
                                    !.verdict = verdict, !.status = "checkpointing",
                                    !.pc = "createTask", !.caller = "createFixTasks",
                                    !.id = nextTaskNum, !.dependencyIds = {},
                                    !.nextTaskNum = nextTaskNum + 1,
                                    !.findings = findings - 1]
                ELSE [engine EXCEPT !.result = CycleResult(result, approved, findings),
                                    !.verdict = verdict, !.status = "checkpointing",
                                    !.pc = "recordCycle"]
  /\ knownIssues' = IF RateLimited(verdict) THEN knownIssues
                     ELSE addKnownIssues(knownIssues, 1..findings, engine.current_cycle + 1)
  /\ returned' = NoReturn
  /\ UNCHANGED <<taskFiles, lockHeld, activeWorkers, spawned, call, claimed, messaging, codex,
                 usage, tracer>>

\* Variant: the cycle loop has no cap.
LoopGoesOnAlways(current_cycle, max_cycles) == TRUE

\* "while (state.current_cycle < state.max_cycles)"
LoopGoesOn(current_cycle, max_cycles) == current_cycle < max_cycles

\* complete(), first statement: setStatus("completed").
EnterComplete(e) ==
  [setStatus(e, "completed") EXCEPT !.pc = "complete", !.result = "none"]

\* The head of the cycle loop: the next cycle starts with plan(), whose first
\* statement is setStatus("planning"); or the loop is over and complete() runs.
CycleLoop(e) ==
  IF LoopGoesOn(e.current_cycle, e.max_cycles)
    THEN [setStatus(e, "planning") EXCEPT !.pc = "plan", !.result = "none",
                                           !.pauseSignal = FALSE, !.verdict = "none"]
    ELSE EnterComplete(e)

\* handleUsagePause, the user's pause: userPauseRequested = false,
\* state.pause("user-requested"); run() returns on status === "paused" (or the
\* process exits with code 2).
UserPause(e) ==
  Ended(pause([e EXCEPT !.userPauseRequested = FALSE], "user-requested"), "paused")

\* The completed and failed tasks are counted for the cycle record (the task
\* files are read); recordCycle sets current_cycle to this cycle's number; then
\* the branch on the result: complete(); handleUsagePause (a user pause ends
\* the run paused, a usage pause sets the run paused and waits for the reset);
\* escalateToUser (setStatus("escalated"), then the user's answer, or the
\* process exits); continue.
Escalations == {"continue", "stop", "exit"}

RecordCycle(answer) ==
  /\ engine.pc = "recordCycle"
  /\ engine.result = "escalate" \/ answer = "continue"
  /\ LET recorded == [engine EXCEPT !.current_cycle = engine.current_cycle + 1] IN
       IF getAllTasksThrows
         THEN EngineFails("invalid_json")
         ELSE engine' =
           CASE engine.result = "complete" -> EnterComplete(recorded)
             [] engine.result = "pause" ->
                  IF engine.userPauseRequested
                    THEN UserPause(recorded)
                    ELSE [pause(recorded, "resetTime") EXCEPT !.pc = "waitForReset",
                                                              !.result = "none"]
             [] engine.result = "escalate" ->
                  CASE answer = "stop" ->
                         [EnterComplete(recorded) EXCEPT !.escalationResult = "stop"]
                    [] answer = "exit" -> EscalationExit(recorded)
                    [] OTHER ->
                         [CycleLoop(setStatus(recorded, "escalated")) EXCEPT
                            !.escalationResult = "none"]
             [] OTHER -> CycleLoop(recorded)
  /\ returned' = NoReturn
  /\ UNCHANGED <<taskFiles, lockHeld, activeWorkers, spawned, call, claimed, messaging, codex, usage, knownIssues, tracer>>

\* handleUsagePause, the usage pause: usage.waitForReset() has returned;
\* state.resume(); run() continues with the next turn of the cycle loop.
UsageReset ==
  /\ engine.pc = "waitForReset"
  /\ engine' = CycleLoop(resume(engine))
  /\ returned' = NoReturn
  /\ UNCHANGED <<taskFiles, lockHeld, activeWorkers, spawned, call, claimed, messaging, codex, usage, knownIssues, tracer>>

\* complete(), after setStatus("completed"): the final commit, then
\* getAllTasks() for the summary; what it throws goes to run()'s catch.
Complete ==
  /\ engine.pc = "complete"
  /\ IF getAllTasksThrows
       THEN EngineFails("invalid_json")
       ELSE engine' = [Ended(engine, "completed") EXCEPT
                         !.escalationResult = engine.escalationResult]
  /\ returned' = NoReturn
  /\ UNCHANGED <<taskFiles, lockHeld, activeWorkers, spawned, call, claimed, messaging, codex, usage, knownIssues, tracer>>

\* ------------------------------------------------ sentinel, commands, crash
\* runSentinelWorker's finally: the sentinel's session has ended.
SentinelExit ==
  /\ Sentinel \in activeWorkers
  /\ activeWorkers' = activeWorkers \ {Sentinel}
  /\ returned' = NoReturn
  /\ UNCHANGED <<taskFiles, lockHeld, spawned, call, engine, claimed, messaging, codex, usage, knownIssues, tracer>>

\* The statuses in which the pause command writes the signal file.
PausableStatuses == {"executing", "planning", "reviewing"}

\* The pause command, given while the engine's process is alive: reads the
\* run state, refuses unless the run is in progress, writes the pause signal
\* file.
PauseCommand ==
  /\ ~RunEnded
  /\ engine.status \in PausableStatuses
  /\ ~engine.pauseFile
  /\ engine' = [engine EXCEPT !.pauseFile = TRUE]
  /\ returned' = NoReturn
  /\ UNCHANGED <<taskFiles, lockHeld, activeWorkers, spawned, call, claimed, messaging, codex, usage, knownIssues, tracer>>

\* The statuses from which the resume command starts the engine again.
ResumableStatuses == {"paused", "escalated"}

\* The resume command, on a run whose process has ended: a new process with
\* resume: true and the run's max_cycles.  initialize() loads the run state
\* and calls state.resume(); run() reads the tasks and skips the first
\* planning when one is pending or in_progress.  The sessions of the old
\* process are gone with it, and their locks are stale.
ResumeCommand ==
  /\ RunEnded
  /\ engine.status \in ResumableStatuses
  /\ LET started == [resume(Ended(engine, "run")) EXCEPT !.userPauseRequested = FALSE]
         hasPendingOrInProgress ==
           TasksWithStatus(taskFiles, "pending")
             \cup TasksWithStatus(taskFiles, "in_progress") # {} IN
       IF getAllTasksThrows
         THEN engine' = [Ended(setStatus(started, "failed"), "failed") EXCEPT
                           !.error = "invalid_json"]
       ELSE IF hasPendingOrInProgress /\ LoopGoesOn(started.current_cycle, started.max_cycles)
         THEN engine' = [started EXCEPT !.pc = "execute"]
         ELSE engine' = CycleLoop(started)
  /\ activeWorkers' = {}
  /\ call' = [s \in Sessions |-> IdleCall]
  /\ lockHeld' = [id \in TaskIds |-> NoSession]
  /\ returned' = NoReturn
  /\ UNCHANGED <<taskFiles, spawned, claimed, messaging, codex, usage, knownIssues, tracer>>

\* The engine's process is killed: what it held in memory is lost; the run
\* state file and the pause signal file stay as they are.
Crash ==
  /\ ~RunEnded
  /\ engine' = [Ended(engine, "crashed") EXCEPT !.userPauseRequested = FALSE]
  /\ returned' = NoReturn
  /\ UNCHANGED <<taskFiles, lockHeld, activeWorkers, spawned, call, claimed, messaging, codex, usage, knownIssues, tracer>>

\* ------------------------------------------------ messages (tools.ts, worker-manager.ts)
\* A line of a <writer>.jsonl file: from, type and timestamp (new Date() in
\* milliseconds); n tells the writer's messages apart, as the id does.
Message(from, type, timestamp, n) ==
  [from |-> from, type |-> type, timestamp |-> timestamp, n |-> n]

Orchestrator == 0    \* from: "orchestrator"

NoMessaging ==
  [now |-> 1,            \* Date.now()
   log |-> {},           \* the lines appended to the .jsonl files
   building |-> {},      \* messages built, their appendFile not yet done
   since |-> 0,          \* the reader's next `since`: the timestamp of the
                         \* latest message it has received (0: none yet)
   received |-> {},      \* the messages read_updates has returned to the reader
   atSpawn |-> {},       \* history: the log when the reader's worker was spawned
   readUpdates |-> FALSE]  \* history: the last step was a read_updates return

\* The clock moves on by a millisecond.
ClockTick ==
  /\ messaging.now < MaxClock
  /\ messaging' = [messaging EXCEPT !.now = @ + 1, !.readUpdates = FALSE]
  /\ UNCHANGED <<taskFiles, lockHeld, activeWorkers, spawned, call, engine, claimed,
                 returned, codex, usage, knownIssues, tracer>>

\* signalWindDown: the message is built with timestamp new Date().
SignalWindDownBuild ==
  /\ ~\E m \in messaging.log \cup messaging.building : m.from = Orchestrator
  /\ messaging' = [messaging EXCEPT
                     !.building = @ \cup {Message(Orchestrator, "wind_down", messaging.now, 1)},
                     !.readUpdates = FALSE]
  /\ UNCHANGED <<taskFiles, lockHeld, activeWorkers, spawned, call, engine, claimed,
                 returned, codex, usage, knownIssues, tracer>>

\* handlePostUpdate of session s: the message is built with timestamp new Date().
PostUpdateBuild(s) ==
  /\ ~\E m \in messaging.building : m.from = s
  /\ Cardinality({m \in messaging.log : m.from # Orchestrator}) < MaxPosts
  /\ messaging' = [messaging EXCEPT
                     !.building = @ \cup {Message(s, "status", messaging.now,
                                                  Cardinality(messaging.log) + 1)},
                     !.readUpdates = FALSE]
  /\ UNCHANGED <<taskFiles, lockHeld, activeWorkers, spawned, call, engine, claimed,
                 returned, codex, usage, knownIssues, tracer>>

\* fs.appendFile of a built message, by signalWindDown or handlePostUpdate.
AppendFile(from) ==
  /\ \E m \in messaging.building :
       /\ m.from = from
       /\ messaging' = [messaging EXCEPT !.building = @ \ {m}, !.log = @ \cup {m},
                                         !.readUpdates = FALSE]
  /\ UNCHANGED <<taskFiles, lockHeld, activeWorkers, spawned, call, engine, claimed,
                 returned, codex, usage, knownIssues, tracer>>

\* "if (msgTs <= sinceTs) return false"
NotNewer(msgTs, sinceTs) == msgTs <= sinceTs

\* handleReadUpdates({since}): every line of every .jsonl file, without those
\* not newer than since.  (No message of the model has a `to`.)
filtered(log, sinceTs) == {msg \in log : ~NotNewer(msg.timestamp, sinceTs)}

\* The timestamp of the latest message of a set, or sinceTs for the empty set.
Latest(msgs, sinceTs) ==
  IF msgs = {} THEN sinceTs
  ELSE CHOOSE t \in {m.timestamp : m \in msgs} : \A m \in msgs : m.timestamp <= t

\* The reader calls read_updates with since = the timestamp of the latest
\* message it has received, and keeps what the call returns.
ReadUpdates ==
  /\ LET got == filtered(messaging.log, messaging.since) IN
       messaging' = [messaging EXCEPT !.received = @ \cup got,
                                      !.since = Latest(got, messaging.since),
                                      !.readUpdates = TRUE]
  /\ UNCHANGED <<taskFiles, lockHeld, activeWorkers, spawned, call, engine, claimed,
                 returned, codex, usage, knownIssues, tracer>>

\* spawnWorker in an execute phase: the reader is from now on a worker that
\* has just been spawned, with nothing received and no `since` to pass
\* ("const sinceTs = input.since ? ... : 0").  The monitor loop breaks once it
\* has signalled a wind-down, so a worker spawned while the log holds a
\* wind_down belongs to a later execute phase.
SpawnReader ==
  /\ messaging' = [messaging EXCEPT !.since = 0, !.received = {},
                                    !.atSpawn = messaging.log,
                                    !.readUpdates = FALSE]
  /\ UNCHANGED <<taskFiles, lockHeld, activeWorkers, spawned, call, engine, claimed,
                 returned, codex, usage, knownIssues, tracer>>

\* ------------------------------------------------ reviewer (codex.ts)
\* What one invocation of the codex CLI does: how the process ends, and what
\* it has written to stdout.
ValidVerdicts == {"APPROVE", "NEEDS_FIXES"}

Invocations ==
  {a \in [exit : {"0", "nonzero", "killed", "ENOENT"},
          stdout : {"empty", "garbage"} \cup ValidVerdicts] :
     a.exit = "ENOENT" => a.stdout = "empty"}

\* runCodex: stdout on exit 0, and on another exit code when stdout has
\* content; else CodexExecutionError with its reason.
runCodex(a) ==
  IF a.exit = "0" THEN [throws |-> "none", stdout |-> a.stdout]
  ELSE IF a.exit = "ENOENT" THEN [throws |-> "not_found", stdout |-> "empty"]
  ELSE IF a.exit = "killed" THEN [throws |-> "timeout", stdout |-> "empty"]
  ELSE IF a.stdout # "empty" THEN [throws |-> "none", stdout |-> a.stdout]
  ELSE [throws |-> "crash", stdout |-> "empty"]

\* buildResult: the verdict of a structured response, else NO_VERDICT.
buildResult(output) == IF output \in ValidVerdicts THEN output ELSE "NO_VERDICT"

\* operation(): runCodex, then buildResult.
operation(a) ==
  LET r == runCodex(a) IN
    [throws |-> r.throws,
     verdict |-> IF r.throws = "none" THEN buildResult(r.stdout) ELSE "none"]

\* "result && result.verdict !== "NO_VERDICT" && result.verdict !== "ERROR""
RealVerdict(r) == r.throws = "none" /\ r.verdict \notin {"NO_VERDICT", "ERROR"}

IdleCodex ==
  [pc |-> "idle",
   attempts |-> <<>>,    \* what the two invocations of this review do
   invocations |-> 0,    \* metrics.invocations
   outcome |-> "none"]   \* the verdict returned, or "throws" for not_found

\* withRetryOnInvalidResponse, first attempt.
FirstAttempt ==
  /\ codex.pc = "first"
  /\ LET firstResult == operation(codex.attempts[1]) IN
       codex' = IF firstResult.throws = "not_found"
                  THEN [codex EXCEPT !.pc = "done", !.invocations = @ + 1,
                                     !.outcome = "throws"]
                ELSE IF RealVerdict(firstResult)
                  THEN [codex EXCEPT !.pc = "done", !.invocations = @ + 1,
                                     !.outcome = firstResult.verdict]
                ELSE [codex EXCEPT !.pc = "second", !.invocations = @ + 1]
  /\ UNCHANGED <<taskFiles, lockHeld, activeWorkers, spawned, call, engine, claimed,
                 returned, messaging, usage, knownIssues, tracer>>

\* withRetryOnInvalidResponse, second attempt and the classification.
SecondAttempt ==
  /\ codex.pc = "second"
  /\ LET secondResult == operation(codex.attempts[2]) IN
       codex' = [codex EXCEPT
                   !.pc = "done", !.invocations = @ + 1,
                   !.outcome = IF secondResult.throws = "not_found" THEN "throws"
                               ELSE IF RealVerdict(secondResult) THEN secondResult.verdict
                               ELSE IF secondResult.throws # "none" THEN "RATE_LIMITED"
                               ELSE "ERROR"]
  /\ UNCHANGED <<taskFiles, lockHeld, activeWorkers, spawned, call, engine, claimed,
                 returned, messaging, usage, knownIssues, tracer>>

\* ------------------------------------------------ flow tracer (flow-tracer.ts)
MAX_FLOW_TRACING_WORKERS == 3

\* A promise of the running array is [flow, settled]: the flow processNext
\* has taken from the queue, and how the promise has settled: "pending" (not
\* yet), "findings" (traceOneFlow returned) or "threw" (it threw, which
\* processNext catches and turns into []).  The flows of a report are
\* 1..n, in the order of the list.
IdleTracer ==
  [pc |-> "idle",        \* idle, race (awaiting Promise.race), done
   queue |-> <<>>,       \* the flows not yet started
   running |-> <<>>,     \* the promises of the subtasks started and not yet collected
   winner |-> 0,         \* the index Promise.race resolves with (0: none has settled)
   allFindings |-> {}]   \* the flows whose findings have been collected

\* processNext(): queue.shift() and the call of traceOneFlow happen before the
\* first await, so the subtask is started within the call.
processNext(queue, running) ==
  [queue |-> Tail(queue), running |-> Append(running, [flow |-> Head(queue), settled |-> "pending"])]

\* "while (running.length < MAX_FLOW_TRACING_WORKERS && queue.length > 0)
\*    running.push(processNext())"
RECURSIVE InitialBatch(_, _)
InitialBatch(queue, running) ==
  IF Len(running) < MAX_FLOW_TRACING_WORKERS /\ Len(queue) > 0
  THEN LET n == processNext(queue, running) IN InitialBatch(n.queue, n.running)
  ELSE [queue |-> queue, running |-> running]

\* running.splice(index, 1)
splice(running, index) ==
  [i \in 1..(Len(running) - 1) |-> IF i < index THEN running[i] ELSE running[i + 1]]

\* Promise.race over promises of which some have settled already: the
\* reactions run in the order of the array, so the first settled one wins.
FirstSettled(running) ==
  IF \E i \in DOMAIN running : running[i].settled # "pending"
  THEN CHOOSE i \in DOMAIN running :
         /\ running[i].settled # "pending"
         /\ \A k \in DOMAIN running : running[k].settled # "pending" => i <= k
  ELSE 0

\* A variant that goes on only when every promise has settled (Promise.all).
allSettled(t) ==
  t.winner # 0 /\ \A i \in DOMAIN t.running : t.running[i].settled # "pending"

\* "await Promise.race(...)" goes on as soon as one promise has settled.
raceSettled(t) == t.winner # 0

\* "while (running.length > 0)": await the next race, or return.
AwaitRace(queue, running, allFindings) ==
  [pc |-> IF Len(running) > 0 THEN "race" ELSE "done",
   queue |-> queue, running |-> running,
   winner |-> FirstSettled(running), allFindings |-> allFindings]

\* traceFlowsConcurrently(flows) up to its first await: the initial batch.
TraceFlowsConcurrently(n) ==
  /\ tracer.pc = "idle"
  /\ LET flows == [i \in 1..n |-> i]
         b == InitialBatch(flows, <<>>) IN
       tracer' = AwaitRace(b.queue, b.running, {})
  /\ UNCHANGED <<taskFiles, lockHeld, activeWorkers, spawned, call, engine, claimed,
                 returned, messaging, codex, usage, knownIssues>>

\* The subtask of running[i] ends: traceOneFlow returns or throws, and the
\* promise of processNext is fulfilled.  The race resolves with the first
\* promise to settle.
SubtaskSettles(i, outcome) ==
  /\ tracer.pc = "race"
  /\ i \in DOMAIN tracer.running
  /\ tracer.running[i].settled = "pending"
  /\ tracer' = [tracer EXCEPT !.running[i].settled = outcome,
                              !.winner = IF @ = 0 THEN i ELSE @]
  /\ UNCHANGED <<taskFiles, lockHeld, activeWorkers, spawned, call, engine, claimed,
                 returned, messaging, codex, usage, knownIssues>>

\* The loop goes on after the race: the settled result is collected, its
\* promise removed, and the next flow of the queue started.
RaceResolves ==
  /\ tracer.pc = "race"
  /\ raceSettled(tracer)
  /\ LET settled == tracer.running[tracer.winner]
         found == IF settled.settled = "findings" THEN {settled.flow} ELSE {}
         rest == splice(tracer.running, tracer.winner)
         n == IF Len(tracer.queue) > 0 THEN processNext(tracer.queue, rest)
              ELSE [queue |-> tracer.queue, running |-> rest] IN
       tracer' = AwaitRace(n.queue, n.running, tracer.allFindings \cup found)
  /\ UNCHANGED <<taskFiles, lockHeld, activeWorkers, spawned, call, engine, claimed,
                 returned, messaging, codex, usage, knownIssues>>

\* "return allFindings": the tracer can be run again, in the next cycle.
TracerReturns ==
  /\ tracer.pc = "done"
  /\ tracer' = IdleTracer
  /\ UNCHANGED <<taskFiles, lockHeld, activeWorkers, spawned, call, engine, claimed,
                 returned, messaging, codex, usage, knownIssues>>

\* ------------------------------------------------ usage monitor (usage-monitor.ts)
\* Utilization in percent (the monitor keeps fractions of 1).
RESUME_UTILIZATION_THRESHOLD == 50

\* The utilizations a poll can report, below and from the resume threshold on.
Utilizations == {0, 49, 50, 90}

\* A reset timestamp, or NoTime for null.
ResetTimes == {NoTime} \cup (1..MaxClock)

UsageSnapshot(five_hour, five_hour_resets_at) ==
  [five_hour |-> five_hour, five_hour_resets_at |-> five_hour_resets_at]

\* DEFAULT_SNAPSHOT
DEFAULT_SNAPSHOT == UsageSnapshot(0, NoTime)

\* What a poll() can meet: no token, a response that is not ok or a fetch
\* that throws ("failed"), or a response with the utilization and the reset
\* time of the window.
PollOutcomes ==
  {[ok |-> FALSE, data |-> DEFAULT_SNAPSHOT]}
    \cup {[ok |-> TRUE, data |-> UsageSnapshot(u, r)] : u \in Utilizations, r \in 1..MaxClock}

IdleUsage ==
  [pc |-> "idle",
   now |-> 1,                      \* Date.now()
   currentUsage |-> DEFAULT_SNAPSHOT,  \* this.currentUsage
   resetTime |-> NoTime,           \* waitForReset: resetTime
   wakeAt |-> NoTime,              \* the pending sleep() ends at this time
   polls |-> 0,                    \* history: poll() calls of this waitForReset
   freshPoll |-> FALSE]            \* history: the last poll() got a response

\* poll(): currentUsage is replaced by a response; else it stays ("returning
\* last known usage").
poll(currentUsage, outcome) == IF outcome.ok THEN outcome.data ELSE currentUsage

\* "snapshot.five_hour >= RESUME_UTILIZATION_THRESHOLD"
StillAbove(five_hour) == five_hour >= RESUME_UTILIZATION_THRESHOLD

\* The clock moves on.
UsageClockTick ==
  /\ usage.pc \in {"sleep", "poll", "pollOnce"}
  /\ usage.now < MaxClock
  /\ usage' = [usage EXCEPT !.now = @ + 1]
  /\ UNCHANGED <<taskFiles, lockHeld, activeWorkers, spawned, call, engine, claimed,
                 returned, messaging, codex, knownIssues, tracer>>

\* waitForReset() up to its first await: without a reset time it polls once;
\* with one in the future it sleeps until then; else it polls.
WaitForReset ==
  /\ usage.pc = "waitForReset"
  /\ LET resetsAt == usage.currentUsage.five_hour_resets_at IN
       usage' = IF resetsAt = NoTime THEN [usage EXCEPT !.pc = "pollOnce"]
                ELSE IF resetsAt > usage.now
                  THEN [usage EXCEPT !.pc = "sleep", !.resetTime = resetsAt,
                                     !.wakeAt = resetsAt]
                ELSE [usage EXCEPT !.pc = "poll", !.resetTime = resetsAt]
  /\ UNCHANGED <<taskFiles, lockHeld, activeWorkers, spawned, call, engine, claimed,
                 returned, messaging, codex, knownIssues, tracer>>

\* sleep(ms) ends: the timer fires when its time has come.
UsageSleepEnds ==
  /\ usage.pc = "sleep"
  /\ usage.now >= usage.wakeAt
  /\ usage' = [usage EXCEPT !.pc = "poll", !.wakeAt = NoTime]
  /\ UNCHANGED <<taskFiles, lockHeld, activeWorkers, spawned, call, engine, claimed,
                 returned, messaging, codex, knownIssues, tracer>>

\* "await this.poll(); return": the only poll of a call without a reset time.
PollOnce(outcome) ==
  /\ usage.pc = "pollOnce"
  /\ usage' = [usage EXCEPT !.pc = "returned",
                            !.currentUsage = poll(usage.currentUsage, outcome),
                            !.polls = @ + 1, !.freshPoll = outcome.ok]
  /\ UNCHANGED <<taskFiles, lockHeld, activeWorkers, spawned, call, engine, claimed,
                 returned, messaging, codex, knownIssues, tracer>>

\* "snapshot = await this.poll()" and the loop's test: sleep another 60 s (one
\* tick of the clock here) while the snapshot is at or over the threshold.
PollAfterReset(outcome) ==
  /\ usage.pc = "poll"
  /\ LET snapshot == poll(usage.currentUsage, outcome) IN
       usage' = IF StillAbove(snapshot.five_hour)
                  THEN [usage EXCEPT !.pc = "sleep", !.currentUsage = snapshot,
                                     !.wakeAt = Min(usage.now + 1, MaxClock),
                                     !.polls = Min(@ + 1, MaxClock), !.freshPoll = outcome.ok]
                  ELSE [usage EXCEPT !.pc = "returned", !.currentUsage = snapshot,
                                     !.polls = Min(@ + 1, MaxClock), !.freshPoll = outcome.ok]
  /\ UNCHANGED <<taskFiles, lockHeld, activeWorkers, spawned, call, engine, claimed,
                 returned, messaging, codex, knownIssues, tracer>>

\* ------------------------------------------------ specification
\* A fresh run with --max-cycles max_cycles and --concurrency concurrency,
\* after initialize(), in the first turn of the cycle loop, at plan() after
\* its setStatus("planning").
InitWith(max_cycles, concurrency) ==
  /\ taskFiles = [id \in TaskIds |-> ENOENT]
  /\ lockHeld = [id \in TaskIds |-> NoSession]
  /\ activeWorkers = {}
  /\ spawned = 0
  /\ call = [s \in Sessions |-> IdleCall]
  /\ engine = [setStatus(IdleEngine, "planning") EXCEPT !.max_cycles = max_cycles,
                                                         !.concurrency = concurrency]
  /\ claimed = [id \in TaskIds |-> {}]
  /\ returned = NoReturn
  /\ messaging = NoMessaging
  /\ codex = IdleCodex
  /\ usage = IdleUsage
  /\ knownIssues = NoKnownIssues
  /\ tracer = IdleTracer

\* The same with the default concurrency.
InitRun(max_cycles) == InitWith(max_cycles, Concurrency)

\* The run of one cycle, with every task list the planner can give and every
\* worker session making tool calls.
Init == InitRun(1)

WorkerNext ==
  \/ \E s \in Sessions, id \in TaskIds : ClaimTask(s, id)
  \/ \E s \in Sessions : ClaimLock(s)
  \/ \E s \in Sessions : ClaimOpen(s)
  \/ \E s \in Sessions : ClaimWrite(s)
  \/ \E s \in Sessions, id \in TaskIds, summary \in Summaries : CompleteTask(s, id, summary)
  \/ \E s \in Sessions : CompleteLock(s)
  \/ \E s \in Sessions : CompleteOpen(s)
  \/ \E s \in Sessions : CompleteWrite(s)
  \/ \E s \in Sessions : WorkerExit(s)

EngineNext ==
  \/ \E tasks \in AllPlanOutputs, review \in PlanReviews : Plan(tasks, review)
  \/ CreateTaskOpen
  \/ CreateTaskWrite
  \/ CreateTaskGetDep
  \/ CreateTaskDepOpen
  \/ CreateTaskDepWrite
  \/ Execute
  \/ ResetOpen
  \/ ResetWrite
  \/ SpawnWorkers
  \/ \E usageWindDown \in BOOLEAN : MonitorPoll(usageWindDown)
  \/ \E timeout \in BOOLEAN : WaitForAllWorkers(timeout)
  \/ Respawn
  \/ \E verdict \in CodeReviews, findings \in 0..MaxFindings : Checkpoint(verdict, findings)
  \/ \E answer \in Escalations : RecordCycle(answer)
  \/ UsageReset
  \/ Complete
  \/ SentinelExit
  \/ PauseCommand

Next == WorkerNext \/ EngineNext

Spec == Init /\ [][Next]_vars

\* ------------------------------------------------ the run over several cycles
\* A run with --max-cycles MaxCycles in which the planner's blocks name
\* earlier blocks only.  One worker session makes tool calls; the other
\* sessions end without having made one.
InitCycles == InitRun(MaxCycles)

NextCycles ==
  \/ \E id \in TaskIds : ClaimTask(1, id)
  \/ ClaimOpen(1)
  \/ ClaimWrite(1)
  \/ \E id \in TaskIds, summary \in Summaries : CompleteTask(1, id, summary)
  \/ CompleteOpen(1)
  \/ CompleteWrite(1)
  \/ \E s \in Sessions : WorkerExit(s)
  \/ \E tasks \in PlanOutputs, review \in PlanReviews : Plan(tasks, review)
  \/ CreateTaskOpen
  \/ CreateTaskWrite
  \/ CreateTaskGetDep
  \/ CreateTaskDepOpen
  \/ CreateTaskDepWrite
  \/ Execute
  \/ ResetOpen
  \/ ResetWrite
  \/ SpawnWorkers
  \/ \E usageWindDown \in BOOLEAN : MonitorPoll(usageWindDown)
  \/ \E timeout \in BOOLEAN : WaitForAllWorkers(timeout)
  \/ Respawn
  \/ \E verdict \in CodeReviews, findings \in 0..MaxFindings : Checkpoint(verdict, findings)
  \/ \E answer \in Escalations : RecordCycle(answer)
  \/ UsageReset
  \/ Complete
  \/ SentinelExit
  \/ PauseCommand
  \/ ResumeCommand
  \/ Crash

SpecCycles == InitCycles /\ [][NextCycles]_vars

\* ------------------------------------------------ the claim race
\* Two sessions and one pending task without dependencies: task-001 alone, or
\* task-002 after one of the sessions has claimed and completed task-001.
\* The engine sleeps in its monitor loop; the sessions call claim_task on the
\* task, the one whose claim is stored goes on to work on it; a session may
\* end.
RaceTask == IF taskFiles[2].exists THEN 2 ELSE 1

InitClaimRace ==
  /\ \/ /\ taskFiles = [id \in TaskIds |-> IF id = 1 THEN JsonFile(NewTask(taskDef("plan"), {})) ELSE ENOENT]
        /\ claimed = [id \in TaskIds |-> {}]
     \/ \E w \in {1, 2} :
          /\ taskFiles = [id \in TaskIds |->
                            IF id = 1 THEN JsonFile(CompletedTask(ClaimedTask(NewTask(taskDef("plan"), {}), w, Now),
                                                                  Now, "done"))
                            ELSE IF id = 2 THEN JsonFile(NewTask(taskDef("plan"), {}))
                            ELSE ENOENT]
          /\ claimed = [id \in TaskIds |-> IF id = 1 THEN {w} ELSE {}]
  /\ lockHeld = [id \in TaskIds |-> NoSession]
  /\ activeWorkers = {1, 2}
  /\ spawned = 2
  /\ call = [s \in Sessions |-> IdleCall]
  /\ engine = [setStatus(IdleEngine, "executing") EXCEPT !.pc = "monitor"]
  /\ returned = NoReturn
  /\ messaging = NoMessaging
  /\ codex = IdleCodex
  /\ usage = IdleUsage
  /\ knownIssues = NoKnownIssues
  /\ tracer = IdleTracer

NextClaimRace ==
  \/ \E s \in {1, 2} : s \notin claimed[RaceTask] /\ ClaimTask(s, RaceTask)
  \/ \E s \in {1, 2} : ClaimLock(s)
  \/ \E s \in {1, 2} : ClaimOpen(s)
  \/ \E s \in {1, 2} : ClaimWrite(s)
  \/ \E s \in {1, 2} : WorkerExit(s)

SpecClaimRace == InitClaimRace /\ [][NextClaimRace]_vars

\* ------------------------------------------------ the message log
\* The supervisor signals one wind-down, sessions post updates, and one
\* running worker polls read_updates, while the clock moves on.
InitMessages == InitRun(1)

NextMessages ==
  \/ ClockTick
  \/ SignalWindDownBuild
  \/ \E s \in Sessions : PostUpdateBuild(s)
  \/ \E from \in Sessions \cup {Orchestrator} : AppendFile(from)
  \/ ReadUpdates

SpecMessages == InitMessages /\ [][NextMessages]_vars

\* ------------------------------------------------ wind-down and later workers
\* The supervisor signals a wind-down in one execute phase; workers are
\* spawned in this and in later phases, post updates and poll read_updates.
InitWindDown == InitRun(1)

NextWindDown ==
  \/ ClockTick
  \/ SignalWindDownBuild
  \/ \E s \in Sessions : PostUpdateBuild(s)
  \/ \E from \in Sessions \cup {Orchestrator} : AppendFile(from)
  \/ SpawnReader
  \/ ReadUpdates

SpecWindDown == InitWindDown /\ [][NextWindDown]_vars

\* ------------------------------------------------ one logical review
\* A review starts; its two invocations of the codex CLI can end in any way.
InitReview ==
  /\ taskFiles = [id \in TaskIds |-> ENOENT]
  /\ lockHeld = [id \in TaskIds |-> NoSession]
  /\ activeWorkers = {}
  /\ spawned = 0
  /\ call = [s \in Sessions |-> IdleCall]
  /\ engine = setStatus(IdleEngine, "planning")
  /\ claimed = [id \in TaskIds |-> {}]
  /\ returned = NoReturn
  /\ messaging = NoMessaging
  /\ usage = IdleUsage
  /\ knownIssues = NoKnownIssues
  /\ tracer = IdleTracer
  /\ \E first \in Invocations, second \in Invocations :
       codex = [IdleCodex EXCEPT !.pc = "first", !.attempts = <<first, second>>]

NextReview == FirstAttempt \/ SecondAttempt

SpecReview == InitReview /\ [][NextReview]_vars

\* ------------------------------------------------ one waitForReset call
\* handleUsagePause calls waitForReset with whatever the monitor polled last:
\* any utilization, with or without a reset time.
InitUsage ==
  /\ taskFiles = [id \in TaskIds |-> ENOENT]
  /\ lockHeld = [id \in TaskIds |-> NoSession]
  /\ activeWorkers = {}
  /\ spawned = 0
  /\ call = [s \in Sessions |-> IdleCall]
  /\ engine = [pause(IdleEngine, "resetTime") EXCEPT !.pc = "waitForReset"]
  /\ claimed = [id \in TaskIds |-> {}]
  /\ returned = NoReturn
  /\ messaging = NoMessaging
  /\ codex = IdleCodex
  /\ knownIssues = NoKnownIssues
  /\ tracer = IdleTracer
  /\ \E u \in Utilizations, r \in ResetTimes :
       usage = [IdleUsage EXCEPT !.pc = "waitForReset",
                                 !.currentUsage = UsageSnapshot(u, r)]

NextUsage ==
  \/ UsageClockTick
  \/ WaitForReset
  \/ UsageSleepEnds
  \/ \E outcome \in PollOutcomes : PollOnce(outcome)
  \/ \E outcome \in PollOutcomes : PollAfterReset(outcome)

SpecUsage == InitUsage /\ [][NextUsage]_vars

\* ------------------------------------------------ one flow tracing
\* The flow tracer traces the flows of a report, while its subtasks end in any
\* order.
InitTracer == InitRun(1)

NextTracer ==
  \/ \E n \in 0..MaxFlows : TraceFlowsConcurrently(n)
  \/ \E i \in 1..MAX_FLOW_TRACING_WORKERS, outcome \in {"findings", "threw"} : SubtaskSettles(i, outcome)
  \/ RaceResolves
  \/ TracerReturns

SpecTracer == InitTracer /\ [][NextTracer]_vars

\* ------------------------------------------------ a resume beside a running worker
\* The run was paused by the user in interactive mode: run() returned, and
\* the worker that waitForAllWorkers left running at its timeout keeps the
\* old process alive, with task-001 claimed.  The resume command has started
\* a new process, which is about to call execute(); its activeWorkers is
\* empty.  Both the old worker and the workers of the new process make tool
\* calls.
InitFormerOwner ==
  /\ taskFiles = [id \in TaskIds |->
                    IF id = 1 THEN JsonFile(ClaimedTask(NewTask(taskDef("plan"), {}), 1, Now))
                              ELSE ENOENT]
  /\ lockHeld = [id \in TaskIds |-> NoSession]
  /\ activeWorkers = {}
  /\ spawned = 1
  /\ call = [s \in Sessions |-> IdleCall]
  /\ engine = [resume(IdleEngine) EXCEPT !.pc = "execute", !.max_cycles = 1,
                                         !.detached = {1}]
  /\ claimed = [id \in TaskIds |-> IF id = 1 THEN {1} ELSE {}]
  /\ returned = NoReturn
  /\ messaging = NoMessaging
  /\ codex = IdleCodex
  /\ usage = IdleUsage
  /\ knownIssues = NoKnownIssues
  /\ tracer = IdleTracer

NextFormerOwner ==
  \/ WorkerNext
  \/ \E s \in Sessions : DetachedExit(s)
  \/ SentinelExit
  \/ Execute
  \/ ResetOpen
  \/ ResetWrite
  \/ SpawnWorkers
  \/ MonitorPoll(FALSE)
  \/ Respawn

SpecFormerOwner == InitFormerOwner /\ [][NextFormerOwner]_vars

\* ------------------------------------------------ a run with --concurrency 1
\* Two cycles with one worker at a time and tasks without dependencies; the
\* user gives no command; an escalation is answered with continue or stop.
\* One worker session makes tool calls.
InitSerial == InitWith(MaxCycles, 1)

NextSerial ==
  \/ \E id \in TaskIds : ClaimTask(1, id)
  \/ ClaimOpen(1)
  \/ ClaimWrite(1)
  \/ \E id \in TaskIds, summary \in Summaries : CompleteTask(1, id, summary)
  \/ CompleteOpen(1)
  \/ CompleteWrite(1)
  \/ \E s \in Sessions : WorkerExit(s)
  \/ SentinelExit
  \/ \E tasks \in {<<>>, <<{}>>} : Plan(tasks, [verdict |-> "APPROVE", escalation |-> "none"])
  \/ CreateTaskOpen
  \/ CreateTaskWrite
  \/ Execute
  \/ ResetOpen
  \/ ResetWrite
  \/ SpawnWorkers
  \/ \E usageWindDown \in BOOLEAN : MonitorPoll(usageWindDown)
  \/ \E timeout \in BOOLEAN : WaitForAllWorkers(timeout)
  \/ Respawn
  \/ \E verdict \in CodeReviews, findings \in 0..MaxFindings : Checkpoint(verdict, findings)
  \/ \E answer \in {"continue", "stop"} : RecordCycle(answer)
  \/ UsageReset
  \/ Complete

SpecSerial == InitSerial /\ [][NextSerial]_vars

\* ------------------------------------------------ the execute phase, with fairness
\* One cycle up to the end of execute(), without a usage wind-down and
\* without a pause signal.  The engine goes on; a tool call in flight
\* returns; every worker and the sentinel end their sessions at some time.
\* One worker session makes tool calls.
InitExecute == InitRun(1)

EngineExecute ==
  \/ \E tasks \in AllPlanOutputs, review \in PlanReviews : Plan(tasks, review)
  \/ CreateTaskOpen
  \/ CreateTaskWrite
  \/ CreateTaskGetDep
  \/ CreateTaskDepOpen
  \/ CreateTaskDepWrite
  \/ Execute
  \/ ResetOpen
  \/ ResetWrite
  \/ SpawnWorkers
  \/ MonitorPoll(FALSE)
  \/ Respawn

CallInFlight == ClaimOpen(1) \/ ClaimWrite(1) \/ CompleteOpen(1) \/ CompleteWrite(1)

NextExecute ==
  \/ \E id \in TaskIds : ClaimTask(1, id)
  \/ \E id \in TaskIds, summary \in Summaries : CompleteTask(1, id, summary)
  \/ CallInFlight
  \/ \E s \in Sessions : WorkerExit(s)
  \/ SentinelExit
  \/ EngineExecute

FairExecute ==
  /\ WF_vars(EngineExecute)
  /\ WF_vars(CallInFlight)
  /\ WF_vars(SentinelExit)
  /\ \A s \in Sessions : SF_vars(WorkerExit(s))

SpecExecute == InitExecute /\ [][NextExecute]_vars /\ FairExecute

\* ------------------------------------------------ properties
\* C1: between two stores of a task's record as pending, at most one session's
\* claim_task stores itself as owner and returns success; when a claim_task
\* call returns success, the stored record is in_progress and owned by the
\* caller.
ClaimMutualExclusion ==
  /\ \A t \in TaskIds : Cardinality(claimed[t]) <= 1
  /\ (returned.tool = "claim_task" /\ returned.result.success) =>
       /\ returned.wrote
       /\ returned.readStatus = "pending"
       /\ claimed[returned.task_id] = {returned.session}
       /\ taskFiles[returned.task_id].parseable
       /\ taskFiles[returned.task_id].json.status = "in_progress"
       /\ taskFiles[returned.task_id].json.owner = returned.session

\* A second session's claim is refused because the first session's claim stands.
ClaimRefusedAfterClaim ==
  /\ returned.tool = "claim_task"
  /\ returned.result = NotPending("in_progress")
  /\ returned.readOwner # returned.session
  /\ claimed[returned.task_id] = {returned.readOwner}

OwnerIffInProgress ==
  \A t \in TaskIds :
    taskFiles[t].parseable =>
      (taskFiles[t].json.owner # NoSession <=> taskFiles[t].json.status = "in_progress")

\* C4, as stated (the parts about completion): complete_task succeeds only on
\* a task it read as in_progress, and no step opens a completed record for
\* writing or changes it.
CompletedIsFinal ==
  [][ /\ (returned'.tool = "complete_task" /\ returned'.result.success) =>
           returned'.readStatus = "in_progress"
      /\ \A t \in TaskIds :
           (taskFiles[t].parseable /\ taskFiles[t].json.status = "completed") =>
             taskFiles'[t] = taskFiles[t] ]_vars

NonOwnerCompleteFails ==
  (returned.tool = "complete_task" /\ returned.readStatus # "none"
     /\ returned.readOwner # returned.session) =>
    /\ ~returned.wrote
    /\ returned.result = Failure("not_owner")
    /\ taskFiles[returned.task_id].parseable
    /\ taskFiles[returned.task_id].json.owner = returned.readOwner
    /\ taskFiles[returned.task_id].json.status = returned.readStatus

\* A session's complete_task is refused on a task another session owns.
CompleteRefusedForNonOwner ==
  /\ returned.tool = "complete_task"
  /\ returned.result = Failure("not_owner")
  /\ returned.readOwner \in Sessions \ {returned.session}
  /\ returned.readStatus = "in_progress"

\* C7, as stated: when createTask stores a dependency's record with the new
\* blocks entry, the stored record parses, has the entry, and keeps the owner
\* a claim has stored since the record was last pending.
BlocksUpdateKeepsClaim ==
  [][ (engine.pc = "createTask_dep_write" /\ engine'.pc # "createTask_dep_write") =>
        /\ taskFiles'[engine.depId].parseable
        /\ engine.id \in taskFiles'[engine.depId].json.blocks
        /\ claimed[engine.depId] # {} =>
             taskFiles'[engine.depId].json.owner \in claimed[engine.depId] ]_vars

\* C8: when resetOrphanedTasks returns, the tasks it wrote are exactly those
\* it read as in_progress with an owner outside activeSessionIds, and the
\* count it returns is their number; each of its writes stores the record it
\* read with status pending and no owner and no started_at.
ResetOrphansExact ==
  [][ /\ engine'.pc = "reset_return" =>
           LET expected == {t \in TaskIds :
                              /\ engine'.inProgressTasks[t].parseable
                              /\ engine'.inProgressTasks[t].json.owner # NoSession
                              /\ engine'.inProgressTasks[t].json.owner
                                   \notin engine'.activeSessionIds} IN
             /\ engine'.written = expected
             /\ engine'.resetCount = Cardinality(expected)
      /\ (engine.pc = "reset_write" /\ engine'.pc # "reset_write") =>
           LET read == engine.inProgressTasks[engine.cur].json IN
             /\ read.status = "in_progress"
             /\ read.owner \notin engine.activeSessionIds
             /\ taskFiles'[engine.cur] =
                  JsonFile([read EXCEPT !.status = "pending", !.owner = NoSession,
                                        !.started_at = NoTime])
             /\ \A t \in TaskIds \ {engine.cur} : taskFiles'[t] = taskFiles[t] ]_vars

\* A sweep has reset one task and left alone a task an active session owns.
OrphanResetOthersKept ==
  /\ engine.pc = "reset_return"
  /\ engine.resetCount = 1
  /\ \E t \in TaskIds :
       /\ engine.inProgressTasks[t].parseable
       /\ engine.inProgressTasks[t].json.owner \in engine.activeSessionIds
       /\ t \notin engine.written
       /\ taskFiles[t] = engine.inProgressTasks[t]
  /\ \E t \in engine.written :
       /\ taskFiles[t].parseable
       /\ taskFiles[t].json.status = "pending"

\* C9, as stated: no read of a task file, by a tool handler or by the engine,
\* finds content that does not parse.
NoPartialRecordRead ==
  /\ returned.result.error # "invalid_json"
  /\ engine.error # "invalid_json"

\* C10, as stated: createTask is never called with the id of a task file
\* that exists.
CreateTaskIdIsFresh ==
  engine.pc = "createTask" => ~taskFiles[engine.id].exists

\* C11, as stated: whenever no createTask call (of plan() or of
\* createFixTasksFromFindings) is under way, for all task records a and b,
\* a.blocks contains b exactly when b.depends_on contains a.
BlocksMirrorsDependsOn ==
  engine.pc \notin {"createTask", "createTask_write", "createTask_deps",
                    "createTask_dep_open", "createTask_dep_write"} =>
    \A a, b \in TaskIds :
      taskFiles[a].parseable /\ taskFiles[b].parseable =>
        (b \in taskFiles[a].json.blocks <=> a \in taskFiles[b].json.depends_on)

\* The tasks a task depends on, directly or through at most n records.
RECURSIVE DependsOnWithin(_, _)
DependsOnWithin(a, n) ==
  IF n = 0 \/ ~taskFiles[a].parseable THEN {}
  ELSE taskFiles[a].json.depends_on
         \cup UNION {DependsOnWithin(b, n - 1) : b \in taskFiles[a].json.depends_on}

\* C12, as stated: no task record depends on itself, directly or transitively.
DependsOnAcyclic ==
  \A a \in TaskIds : a \notin DependsOnWithin(a, MaxTasks)

\* C13, as stated: when userPauseRequested is set, the cycle's decision (the
\* result run() branches on) is pause, whatever the tallies, the findings and
\* the verdict.
UserPauseDecidesPause ==
  (engine.userPauseRequested /\ engine.result # "none") => engine.result = "pause"

\* C14, as stated, for a cycle whose decision is pause: when the pause signal
\* file was there in the poll in which the usage wind-down was seen, the run
\* ends paused as user-requested; it does not wait for the usage reset and go
\* on by itself.
UserPauseBeatsUsage ==
  [][(/\ engine.pc = "recordCycle"
      /\ engine'.pc \notin {"recordCycle", "failed"}
      /\ engine.pauseSignal
      /\ engine.result = "pause")
       => (engine'.pc = "paused" /\ engine'.resume_after = "user-requested")]_vars

\* C15, as stated: with no user pause detected and the usage critical or over
\* the wind-down threshold, the cycle's decision is pause, whatever the
\* tallies, the findings and the verdict.
UsageDecidesPause ==
  (~engine.userPauseRequested /\ engine.usageCritical /\ engine.result # "none")
    => engine.result = "pause"

\* C16, as stated: a cycle with no pause condition, no critical or high
\* finding and a code review that did not approve is decided continue.
NotApprovedContinues ==
  [][(/\ engine.pc = "review"
      /\ engine'.pc = "recordCycle"
      /\ engine'.verdict # "APPROVE"
      /\ ~engine.userPauseRequested
      /\ ~engine.usageCritical)
       => engine'.result = "continue"]_vars

\* C17, as stated, for the resume after the usage reset: when run() goes on
\* after a pause while a task is pending or in_progress, it does not go to
\* plan().
ResumeSkipsPlanning ==
  [][(/\ engine.pc = "waitForReset"
      /\ TasksWithStatus(taskFiles, "pending")
            \cup TasksWithStatus(taskFiles, "in_progress") # {})
       => engine'.pc # "plan"]_vars

\* C18, as stated: plan() with no task block does not go on to execute().
EmptyPlanFailsCycle ==
  [][engine.pc = "plan" => engine'.pc # "execute"]_vars

\* C19: a step of the engine that ends a review dialogue with RATE_LIMITED
\* leaves the run paused with a resume_after that is not null, writes no task
\* file and does not record the cycle; a paused run takes no further step.
RateLimitPausesRun ==
  [][/\ (engine' # engine /\ engine'.verdict = "RATE_LIMITED")
          => /\ engine'.pc = "paused"
             /\ engine'.resume_after # "null"
             /\ engine'.current_cycle = engine.current_cycle
             /\ taskFiles' = taskFiles
     /\ engine.pc = "paused" => engine' = engine]_vars

\* C19, reached: the run is paused by a rate-limited review while task files
\* exist.
PausedByRateLimit ==
  /\ engine.pc = "paused"
  /\ engine.verdict = "RATE_LIMITED"
  /\ engine.resume_after = "now+5h"
  /\ \E id \in TaskIds : taskFiles[id].exists

\* C20, as stated: after the user answered stop to an escalation, the run's
\* status is completed.
StopEndsCompleted ==
  engine.escalationResult = "stop" => engine.status = "completed"

\* C21, as stated (its last part): the engine does not remove a pause signal
\* without pausing the run afterwards; the run does not end completed while a
\* signal the engine has removed still waits for its pause.
ConsumedSignalPauses ==
  engine.pc = "completed" => ~engine.userPauseRequested

\* C22, as stated: when the engine's process is killed after it has taken up a
\* pause request and before it has stored the run as paused, the request is
\* still on record for the restart: the signal file is there, or the run
\* state is paused.
PauseRequestSurvivesCrash ==
  [][(engine'.pc = "crashed" /\ engine.userPauseRequested)
       => (engine'.pauseFile \/ engine'.status = "paused")]_vars

\* C23: no step, of the engine or of a command, lowers current_cycle or takes
\* it above max_cycles.
CycleWithinCap ==
  [][/\ engine'.current_cycle >= engine.current_cycle
     /\ engine'.current_cycle <= engine'.max_cycles
     /\ engine'.max_cycles = engine.max_cycles]_vars

\* C23, reached: the run is paused for the usage reset in its last cycle.
PausedAtCap ==
  /\ engine.pc = "waitForReset"
  /\ engine.current_cycle = engine.max_cycles

\* C24: the run state has status paused exactly when paused_at is not null,
\* and paused_at is not null exactly when resume_after is not null.
PausedIffPausedAt ==
  /\ engine.status = "paused" <=> engine.paused_at # "null"
  /\ engine.paused_at # "null" <=> engine.resume_after # "null"

\* C24, reached: the run is paused by the user in its last cycle.
PausedAgainByUser ==
  /\ engine.pc = "paused"
  /\ engine.status = "paused"
  /\ engine.paused_at = "now"
  /\ engine.resume_after = "user-requested"
  /\ engine.current_cycle = MaxCycles

\* C25, as stated: once the run's status is completed or failed, no step
\* changes it.
TerminalStatusIsFinal ==
  [][engine.status \in {"completed", "failed"} => engine'.status = engine.status]_vars

GraceExpiredWorkersSwept ==
  [][(engine.pc = "execute" /\ engine'.pc \in {"reset_loop", "reset_return"}) =>
       \A t \in TaskIds :
         (/\ taskFiles[t].parseable
          /\ taskFiles[t].json.status = "in_progress"
          /\ taskFiles[t].json.owner \in engine.graceExpired) => t \in engine'.orphans]_vars

\* C28, as stated, for the respawn decision after a sweep that reset tasks:
\* when no worker session was active at the sweep and a task is pending, fresh
\* workers are spawned, min(concurrency, pending) of them (as far as the
\* model has session ids left), with the sentinel active or not.
RespawnWhenNoWorker ==
  [][LET pendingNow == Cardinality(TasksWithStatus(taskFiles, "pending")) IN
       (/\ engine.pc = "reset_return"
        /\ engine.caller = "monitor"
        /\ engine'.pc = "monitor"
        /\ engine.activeSessionIds \cap Sessions = {}
        /\ pendingNow > 0) =>
         Cardinality(activeWorkers' \ activeWorkers)
           = Min(Min(Concurrency, pendingNow), MaxSessions - spawned)]_vars

\* C29, as stated: after a read_updates call of the reader, every wind_down
\* message in the log has been returned to the reader.
WindDownReturnedByNextRead ==
  messaging.readUpdates =>
    \A m \in messaging.log : m.type = "wind_down" => m \in messaging.received

\* C30, as stated: a logical review makes at most two invocations, and its
\* outcome is: the first attempt's real verdict, with no second attempt; no
\* verdict and no retry when the tool is not found; else the second attempt's
\* real verdict; else RATE_LIMITED when the second attempt failed in execution
\* (timeout, crash, empty output) and ERROR when its output was unparseable.
ReviewOutcomeOfTwoAttempts ==
  codex.pc = "done" =>
    LET first == codex.attempts[1]
        second == codex.attempts[2]
        notFound(a) == a.exit = "ENOENT"
        timeout(a) == a.exit = "killed"
        crash(a) == a.exit = "nonzero" /\ a.stdout = "empty"
        emptyOutput(a) == a.exit = "0" /\ a.stdout = "empty"
        real(a) == a.exit \in {"0", "nonzero"} /\ a.stdout \in ValidVerdicts IN
      /\ codex.invocations <= 2
      /\ IF real(first) THEN codex.outcome = first.stdout /\ codex.invocations = 1
         ELSE IF notFound(first) THEN codex.outcome = "throws" /\ codex.invocations = 1
         ELSE IF real(second) THEN codex.outcome = second.stdout
         ELSE IF notFound(second) THEN codex.outcome = "throws"
         ELSE IF timeout(second) \/ crash(second) \/ emptyOutput(second)
           THEN codex.outcome = "RATE_LIMITED"
         ELSE codex.outcome = "ERROR"

\* C31: waitForReset returns only when the current time has reached the reset
\* timestamp it waited for and a fresh poll (one that got a response) has
\* shown a utilization below the resume threshold; it never returns while the
\* latest known utilization is at or over the threshold, also when no reset
\* time is known or a poll fails.
WaitForResetReturnsBelowThreshold ==
  usage.pc = "returned" =>
    /\ usage.freshPoll
    /\ usage.currentUsage.five_hour < RESUME_UTILIZATION_THRESHOLD
    /\ usage.resetTime # NoTime
    /\ usage.now >= usage.resetTime

\* C32: when the flow report has critical or high findings and no pause
\* condition holds, the cycle's decision is continue and the engine creates a
\* new task for each of them: the task id is not in use, and the record
\* stored is pending with task_type security.
FixTaskPerFinding ==
  [][/\ (/\ engine.pc = "review"
         /\ engine'.caller = "createFixTasks"
         /\ ~engine.userPauseRequested /\ ~engine.usageCritical)
          => /\ engine'.result = "continue"
             /\ ~taskFiles[engine'.id].exists
     /\ (/\ engine.pc = "createTask_write"
         /\ engine.caller = "createFixTasks"
         /\ taskFiles'[engine.id].parseable)
          => /\ ~taskFiles[engine.id].parseable
             /\ taskFiles'[engine.id].json.status = "pending"
             /\ taskFiles'[engine.id].json.task_type = "security"]_vars

\* C33: when a cycle ends with the decision complete (no task is left, the
\* review approved, the tracer found nothing), every finding the registry has
\* from an earlier cycle has been resolved by its fix task in between: as the
\* run completes, its entry has addressed = true and addressed_in_cycle is a
\* cycle after the one the finding was found in, up to this one.
ResolvedFindingIsAddressed ==
  [][(/\ engine.pc = "recordCycle"
      /\ engine.result = "complete"
      /\ engine'.status = "completed")
       => \A k \in FindingKeys :
            (knownIssues[k].exists /\ knownIssues[k].found_in_cycle < engine'.current_cycle)
              => /\ knownIssues'[k].addressed
                 /\ knownIssues'[k].addressed_in_cycle > knownIssues[k].found_in_cycle
                 /\ knownIssues'[k].addressed_in_cycle <= engine'.current_cycle]_vars

\* C34: the run status becomes completed only when no task is pending or
\* in_progress, unless the user chose stop at an escalation - also at the
\* cycle cap, on a resume after an escalation at the cap, and after budget
\* pauses.
CompletedOnlyWhenNoTaskLeft ==
  [][(/\ engine.status # "completed"
      /\ engine'.status = "completed"
      /\ engine'.escalationResult # "stop")
       => TasksWithStatus(taskFiles', "pending")
            \cup TasksWithStatus(taskFiles', "in_progress") = {}]_vars

\* C35: in every state, every task that is in_progress or completed has all
\* the tasks of its depends_on completed.  (A file in the middle of a write
\* has no record to read a status from; the record of a dependency is looked
\* at when the file has one.)
StartedTaskHasDependenciesCompleted ==
  \A id \in TaskIds :
    (taskFiles[id].parseable /\ taskFiles[id].json.status \in {"in_progress", "completed"})
      => \A d \in taskFiles[id].json.depends_on :
           /\ taskFiles[d].exists
           /\ taskFiles[d].parseable => taskFiles[d].json.status = "completed"

\* C36: when every worker and the sentinel end their sessions at some time
\* and there is neither a usage wind-down nor a pause signal, the monitor loop
\* of execute() is left at some time, for every task list the planner can
\* give.  (The model has MaxSessions worker sessions; a run that has used
\* them up while a pending task could still be claimed is not followed
\* further.)
InMonitorLoop ==
  \/ engine.pc = "monitor"
  \/ engine.pc \in {"reset_loop", "reset_write", "reset_return"} /\ engine.caller = "monitor"

OutOfSessions ==
  /\ spawned = MaxSessions
  /\ activeWorkers \cap Sessions = {}
  /\ \E id \in TaskIds :
       /\ taskFiles[id].parseable
       /\ taskFiles[id].json.status = "pending"
       /\ \A d \in taskFiles[id].json.depends_on :
            taskFiles[d].parseable /\ taskFiles[d].json.status = "completed"

WorkersWithinConcurrency ==
  Cardinality(activeWorkers \cap Sessions) <= engine.concurrency

\* C38: after orphan recovery has reset a task, a complete_task call of the
\* task's former owner fails and leaves the task as it is, whether or not
\* another session has claimed the task since, unless the former owner has
\* claimed the task again.  The step is the call's read of the task under the
\* lock; the former owner is the old process's worker, and its claim is no
\* longer in `claimed` once the reset has been stored.
FormerOwnerCompleteFails ==
  [][\A s \in Sessions, id \in TaskIds :
       (/\ s \in engine.detached
        /\ s \notin claimed[id]
        /\ call[s].pc \in {"idle", "complete_lock"}
        /\ \/ call'[s].pc = "complete_open" /\ call'[s].task_id = id
           \/ /\ returned'.tool = "complete_task"
              /\ returned'.session = s
              /\ returned'.task_id = id)
         => /\ call'[s].pc = "idle"
            /\ ~returned'.result.success
            /\ taskFiles' = taskFiles]_vars

\* C39: a wind_down broadcast written in one execute phase is never delivered
\* to a worker spawned in a later phase: the first read_updates call of a
\* freshly spawned worker returns no wind_down message that was in the log
\* when the worker was spawned.
FreshWorkerGetsNoOldWindDown ==
  [][(/\ messaging.received = {}
      /\ messaging.since = 0
      /\ messaging'.readUpdates)
       => \A m \in messaging'.received :
            m.type = "wind_down" => m \notin messaging.atSpawn]_vars

\* C40: while the flow tracer runs, at most 3 flow-tracing subtasks are in
\* flight, and whenever a subtask has settled while untraced flows remain the
\* next flow is started at once: the loop can go on as soon as one subtask
\* has settled, whatever the other running subtasks do, and while flows
\* remain in the queue its step keeps 3 subtasks started.
FlowTracerSlidingWindow ==
  /\ Cardinality({i \in DOMAIN tracer.running : tracer.running[i].settled = "pending"}) <= 3
  /\ Len(tracer.running) <= 3
  /\ (/\ tracer.pc = "race"
      /\ \E i \in DOMAIN tracer.running : tracer.running[i].settled # "pending")
       => ENABLED RaceResolves
  /\ (tracer.pc = "race" /\ Len(tracer.queue) > 0) => Len(tracer.running) = 3
  /\ \A i \in DOMAIN tracer.running :
       /\ tracer.running[i].flow \notin tracer.allFindings
       /\ \A k \in 1..Len(tracer.queue) : tracer.running[i].flow < tracer.queue[k]

\* A flow beyond the initial batch runs beside a subtask of the initial
\* batch that has not settled.
NextFlowStartedBesideRunning ==
  /\ tracer.pc = "race"
  /\ Len(tracer.queue) > 0
  /\ \E i, k \in DOMAIN tracer.running :
       /\ tracer.running[i].settled = "pending"
       /\ tracer.running[k].settled = "pending"
       /\ tracer.running[i].flow <= 3
       /\ tracer.running[k].flow > 3

====
